---- MODULE Spec2Model ----
(***************************************************************************)
(* EVS camera fan-out core.                                                *)
(*                                                                         *)
(*   Spec    the Broker, HalCamera (evs/manager/1.1/HalCamera.cpp): client *)
(*           attach and detach, the frame request queue, frame delivery    *)
(*           and the Frame Tracker.  deliverFrame_1_1 holds mFrameMutex    *)
(*           only around the request loop and doneWithFrame holds no lock, *)
(*           so a delivery is two steps (fan-out, then tracking) between   *)
(*           which client releases may run.                                *)
(*   SpecSH  one client's StreamHandler (evs/apps/default/                 *)
(*           StreamHandler.cpp): the ready/held slot pair.  Every method   *)
(*           runs under mLock, so each is one step.                        *)
(*   SpecMaster  HalCamera's mastership arbiter and event fan-out:         *)
(*           setMaster, forceMaster, unsetMaster, setParameter, notify,    *)
(*           with clients attaching, detaching and going away.             *)
(*   SpecStream  HalCamera's stream state: clientStreamStarting,           *)
(*           clientStreamEnding and the device's STREAM_STOPPED event.     *)
(*   SpecNotify  HalCamera::notify with either event type and forwards     *)
(*           that fail, while clients attach, stream and go away.          *)
(*   SpecStop  StreamHandler's start and stop: blockingStopStream waits    *)
(*           on mSignal, which deliverFrame_1_1 notifies; weak fairness    *)
(*           on the stop request, the waiter and the camera's event.       *)
(*   SpecDev  the device, EvsV4lCamera over VideoCapture (evs/             *)
(*           sampleDriver): startVideoStream, the capture thread and       *)
(*           stopVideoStream, which holds no lock across stopStream().     *)
(*   SpecPool  EvsV4lCamera's buffer pool: setMaxFramesInFlight with an    *)
(*           allocator that may run out, forwardFrame's buffer choice and  *)
(*           doneWithFrame, whose delivery call runs outside mAccessLock   *)
(*           and may fail.                                                 *)
(*   SpecRace  two binder threads in HalCamera::setMaster, which tests     *)
(*           and assigns mMaster without a lock.                           *)
(*   SpecLock  mFrameMutex: HalCamera::notify calling into clients, a      *)
(*           client calling back into the Broker from its event callback,  *)
(*           and the two scopes that take the mutex.                       *)
(*   SpecSv  SurroundView3dSession (surround_view/service-impl): start     *)
(*           and stop of the stream, the process thread's loop on          *)
(*           mFramesSignal and FramesHandler::deliverFrame_1_1; weak       *)
(*           fairness on the thread's steps and on the camera's stop.      *)
(***************************************************************************)
EXTENDS Integers, Sequences, FiniteSets, TLC

\* ------------------------------------------------------------------ bounds
MaxFrames == 4
NumShBufs == 3
MaxCalls == 5
MaxPool == 3

\* ------------------------------------------------------- program constants
kThreshold == 16000
MAX_BUFFERS_IN_FLIGHT == 100
kNumFrames == 4

\* The client objects.  Three are enough for the control plane (one owner, one
\* rival, one bystander; three streams ending in turn).
Clients == {1, 2, 3}
\* The clients that take part in frame delivery: two are enough for a frame to
\* be shared, taken by one client only, or taken by none.
FrameClients == {1, 2}
\* Buffer ids of the device.  Every client is allowed one buffer, so the pool
\* the Broker asks for never exceeds the number of clients.
BufIds == 1..Cardinality(FrameClients)
\* Buffer ids of the camera a StreamHandler talks to.
ShBufs == 1..NumShBufs
\* Capture timestamps in microseconds: the k-th frame of the device carries
\* one of FrameTimes[k] (later frames are 40 ms apart).
FrameTimes == <<{0}, {10000}, {16000, 30000}, {60000}>>
TimeOfFrame(k) == IF k <= Len(FrameTimes) THEN FrameTimes[k] ELSE {20000 + 40000 * (k - 3)}

\* Stream receiver versions a client may have: 0 is a legacy (v1.0) receiver.
Versions == {0, 1}
\* VirtualCamera::getAllowedBuffers(): the client's share of the pool.
AllowedBuffers(c) == 1

VARIABLES
    \* ---- HalCamera
    mClients,          \* list of weak references to clients
    mTimelines,        \* client -> fence events not yet matched by a timeline
                       \*   event (fence counter - timeline counter); -1: none
    mFrames,           \* Frame Tracker: sequence of [frameId, refCount]
    mNextRequests,     \* deque of [client, timestamp]
    mCurrentRequests,  \* deque of [client, timestamp]
    pc,                \* producer thread in deliverFrame_1_1: "idle" | "track"
    cur,               \* the frame being delivered: [id, ts], its frameDeliveries
                       \*   n, and the clients whose deliverFrame() returns true
    \* ---- clients (VirtualCamera objects)
    life,              \* client -> "none" | "alive" | "closed" | "dead"
    version,           \* client -> VirtualCamera::getVersion()
    holds,             \* client -> buffer id -> frames accepted, not released
    lastTs,            \* client -> timestamp of the frame last delivered to it
    \* ---- device (mHwCamera)
    hwFrames,          \* buffers the device may have in use (mFramesAllowed)
    hwAsk,             \* the last setMaxFramesInFlight call: [n, ok] (n = 0: none)
    inUse,             \* buffer ids the device has out (mBuffers[idx].inUse)
    nDelivered,        \* frames the device has delivered
    nReturned,         \* doneWithFrame_1_1 calls the device has received
    allTaken,          \* every frame so far was accepted by some client
    \* ---- StreamHandler
    mReadyBuffer,      \* slot of the frame on deck, or -1
    mHeldBuffer,       \* slot of the frame the consumer has, or -1
    mBuffers,          \* slot -> buffer id stored there (0: never written)
    camDelivered,      \* buffer id -> frames the camera delivered to the handler
    camReturned,       \* descriptor -> times given to mCamera->doneWithFrame_1_1
    camLast,           \* buffer id of the last frame the camera delivered (0: none)
    shOp,              \* the last call: [op, arg, ret]
    shCalls,           \* number of calls made
    mRunning,          \* StreamHandler::mRunning
    stopPc,            \* the thread in blockingStopStream: "idle" | "asked"
                       \*   (stopVideoStream called) | "waiting" | "returned"
    mSignal,           \* a notify_all of mSignal has reached the waiting thread
    camStream,         \* the handler's camera: "off" | "on" | "stopping" (its
                       \*   STREAM_STOPPED event is on its way)
    \* ---- HalCamera, control plane
    mMaster,           \* weak reference to the master client (its pointer; 0: null)
    mStreamState,      \* "STOPPED" | "RUNNING" | "STOPPING"
    streaming,         \* client -> its own stream: "idle" | "running" | "ended"
    hwOn,              \* the device has a stream receiver and is capturing
    hwStopped,         \* the device's STREAM_STOPPED event is on its way
    hwStarts,          \* startVideoStream calls the device has received
    hwStops,           \* stopVideoStream calls the device has received
    hwParam,           \* parameter id -> value in the device
    ctlOp,             \* the last control call: [op, c, ret, id, value]
    ctlEv,             \* the event that call sent: [aType, p0, p1, to], and for
                       \*   an event of the device also [failed, state]
    ctlTick,           \* flips at every control call
    \* ---- EvsV4lCamera and its VideoCapture, stream start and stop
    mStream,           \* the stream receiver: "none" | "v1_0" | "v1_1" (with
                       \*   "v1_1" mStream_1_1 is set too)
    mRunMode,          \* VideoCapture::mRunMode, the set of its flags RUN and
                       \*   STOPPING ({} is STOPPED)
    capPc,             \* the capture thread: "none" | "test" (at the loop test)
                       \*   | "frame" (in the callback) | "ending" | "exited"
    stPc,              \* caller -> where it is in stopVideoStream: "idle" |
                       \*   "join" | "test" | "mark11" | "mark10"
    markers,           \* end-of-stream markers delivered since the last start
    owed,              \* a stopVideoStream began with a receiver registered
    lateFrame,         \* a frame was delivered after the marker
    nullCall,          \* a call was made through a null receiver reference
    nFrames,           \* frames the capture thread has forwarded
    mFormat,           \* output pixel format ("none": camera not opened)
    v4lFormat,         \* mVideo.getV4LFormat(), the source FourCC
    mFillBufferFromVideo,  \* the conversion routine, or "unset"
    fillFault,         \* a frame was passed through an unset routine pointer
    devOp,             \* the last startVideoStream: [op, ret]
    stopOp,            \* caller -> how its last VideoCapture::stopStream ended
    \* ---- EvsV4lCamera, buffer pool
    v4lBuffers,        \* EvsV4lCamera::mBuffers: sequence of [handle, inUse]
                       \*   (handle: the record holds a graphics buffer)
    mFramesAllowed,    \* buffers the camera may have out
    mFramesInUse,      \* buffers the camera has out: an unsigned count, kept
                       \*   as the representative nearest to zero (-1 is 2^32 - 1)
    fwdIdx,            \* the record forwardFrame is delivering, 0 if none
    poolOp,            \* the last setMaxFramesInFlight: [n, supply, ret, tick]
    \* ---- HalCamera::setMaster, one thread per client
    smPc,              \* client -> where its thread is inside setMaster
    smRet,             \* client -> what its last setMaster returned
    \* ---- HalCamera, who holds mFrameMutex
    mFrameMutex,       \* the thread inside a lock_guard of mFrameMutex, or "none"
    evPc,              \* the thread in HalCamera::notify: "idle" or "forward"
    evType,            \* the event it forwards
    evLeft,            \* clients of mClients it has still to call
    cbPc,              \* the client callback vCam->notify(event) in progress
    cbOp,              \* the Broker method that callback has called back
    dlPc,              \* the device's frame thread in deliverFrame_1_1
    rqPc,              \* a client thread in requestNewFrame
    \* ---- SurroundView3dSession
    svStreamState,     \* SurroundView3dSession::mStreamState
    mProcessingEvsFrames, \* a batch of frames is waiting for, or in, handleFrames
    ptPc,              \* where mProcessThread is inside processFrames
    svStopped,         \* SvEvent::STREAM_STOPPED notifications sent to the client
    svCam,             \* the session's EVS camera stream: "off", "on", "stopping"
    svOp               \* the last FramesHandler::deliverFrame_1_1:
                       \*   [size, busy, given, copied, tick]

halVars == <<mClients, mTimelines, mFrames, mNextRequests, mCurrentRequests,
             pc, cur, life, version, holds, lastTs, hwFrames, hwAsk, inUse,
             nDelivered,
             nReturned, allTaken>>
runVars == <<mRunning, stopPc, mSignal, camStream>>
shVars == <<mReadyBuffer, mHeldBuffer, mBuffers, camDelivered, camReturned,
            camLast, shOp, shCalls, runVars>>
ctlVars == <<mMaster, mStreamState, streaming, hwOn, hwStopped, hwStarts, hwStops,
             hwParam, ctlOp, ctlEv, ctlTick>>
devVars == <<mStream, mRunMode, capPc, stPc, markers, owed, lateFrame, nullCall,
             nFrames, mFormat, v4lFormat, mFillBufferFromVideo, fillFault, devOp, stopOp>>
poolVars == <<v4lBuffers, mFramesAllowed, mFramesInUse, poolOp, fwdIdx>>
raceVars == <<smPc, smRet>>
lockVars == <<mFrameMutex, evPc, evType, evLeft, cbPc, cbOp, dlPc, rqPc>>
svVars == <<svStreamState, mProcessingEvsFrames, ptPc, svStopped, svCam, svOp>>
extVars == <<raceVars, lockVars, svVars>>
drvVars == <<devVars, poolVars, extVars>>
vars == <<halVars, shVars, ctlVars, drvVars>>

\* ----------------------------------------------------------------- helpers
RECURSIVE SumSeq(_)
SumSeq(s) == IF s = <<>> THEN 0 ELSE Head(s) + SumSeq(Tail(s))

RECURSIVE SumOver(_, _)
SumOver(f, S) ==
    IF S = {} THEN 0
    ELSE LET x == CHOOSE y \in S : TRUE IN f[x] + SumOver(f, S \ {x})

\* wp<VirtualCamera>::promote() != nullptr: the object exists while somebody
\* holds a strong reference, attached ("alive") or detached ("closed").
Promotes(c) == life[c] \in {"alive", "closed"}

NoFrame == [id |-> 0, ts |-> 0, n |-> 0, accept |-> {}, kept |-> <<>>]

\* ------------------------------------------------ Frame Tracker (mFrames)
\* FrameRecord::refCount is an unsigned 32-bit count (deliverFrame_1_1 assigns
\* it from `unsigned frameDeliveries`).  A record stores the representative r
\* nearest to zero of the value r mod 2^32, so a count decremented below zero
\* is stored as -1 and stands for 2^32 - 1.  The tests on it are the unsigned
\* ones: `refCount <= 0` and `refCount == 0` are r = 0, `refCount > 0` is r # 0.
RefIsZero(r) == r = 0
\* (mutant) the count compared as a signed integer
RefLeZeroSigned(r) == r <= 0
RefLeZero(r) == r = 0
RefIsPositive(r) == r # 0

\* The loop `for (i = 0; i < mFrames.size(); i++) if (frameId == bufferId) break`:
\* the index found, or Len + 1 (i == mFrames.size()).
FindFrame(frames, id) ==
    LET hit == {i \in 1..Len(frames) : frames[i].frameId = id}
    IN  IF hit = {} THEN Len(frames) + 1
        ELSE CHOOSE i \in hit : \A j \in hit : i <= j

\* (mutant) the free-slot search left out: every frame is appended
FirstFreeSlotNone(frames) == Len(frames) + 1

\* The loop `if (mFrames[i].refCount == 0) break` of deliverFrame_1_1.
FirstFreeSlot(frames) ==
    LET free == {i \in 1..Len(frames) : RefIsZero(frames[i].refCount)}
    IN  IF free = {} THEN Len(frames) + 1
        ELSE CHOOSE i \in free : \A j \in free : i <= j

\* "Add an entry for this frame in our tracking list."
RegisterFrame(frames, id, n) ==
    LET i == FirstFreeSlot(frames)
    IN  IF i = Len(frames) + 1
        THEN Append(frames, [frameId |-> id, refCount |-> n])
        ELSE [frames EXCEPT ![i] = [frameId |-> id, refCount |-> n]]

\* HalCamera::doneWithFrame: the tracker after the call.
DoneFrames(frames, id) ==
    LET i == FindFrame(frames, id)
    IN  IF i = Len(frames) + 1 THEN frames
        ELSE [frames EXCEPT ![i].refCount = @ - 1]

\* HalCamera::doneWithFrame: whether the buffer goes back to the device.
DoneReturns(frames, id) ==
    LET i == FindFrame(frames, id)
    IN  /\ i <= Len(frames)
        /\ RefLeZero(frames[i].refCount - 1)

\* changeFramesInFlight: "Copy and compact the old records that are still active".
\* (mutant) a record shared by one client only counted as inactive
IsActiveShared(rec) == rec.refCount > 1
IsActive(rec) == RefIsPositive(rec.refCount)
CompactFrames(frames) == SelectSeq(frames, IsActive)

\* changeFramesInFlight: the count asked of the hardware.
RECURSIVE CountAllowed(_)
CountAllowed(clients) ==
    IF clients = <<>> THEN 0
    ELSE (IF Promotes(Head(clients)) THEN AllowedBuffers(Head(clients)) ELSE 0)
         + CountAllowed(Tail(clients))

\* (mutant) the count asked of the hardware without "Never drop below 1 buffer"
BufferCountUnclamped(clients, delta) == CountAllowed(clients) + delta

BufferCount(clients, delta) ==
    LET n == CountAllowed(clients) + delta
    IN  IF n < 1 THEN 1 ELSE n

\* std::list::remove(value)
RemoveClient(clients, c) == SelectSeq(clients, LAMBDA x : x # c)

\* ---------------------------------------------------------------- requests
\* (mutant) the threshold taken in milliseconds against microsecond stamps
TooSoonMillis(timestamp, req) == timestamp - req.timestamp < 16

\* (mutant) a frame exactly kThreshold later counted as too soon
TooSoonInclusive(timestamp, req) == timestamp - req.timestamp <= kThreshold

\* "Skip current frame because it arrives too soon."
TooSoon(timestamp, req) == timestamp - req.timestamp < kThreshold

\* (mutant) the loop putting a deferred request at the front of mNextRequests
RECURSIVE ServeRequestsPushFront(_, _, _)
ServeRequestsPushFront(reqs, timestamp, accept) ==
    IF reqs = <<>> THEN [deferred |-> <<>>, served |-> <<>>]
    ELSE LET req == Head(reqs)
             rest == ServeRequestsPushFront(Tail(reqs), timestamp, accept)
         IN  IF ~Promotes(req.client) THEN rest
             ELSE IF TooSoon(timestamp, req)
                  THEN [rest EXCEPT !.deferred = @ \o <<req>>]
             ELSE IF req.client \in accept
                  THEN [rest EXCEPT !.served = <<req.client>> \o @]
             ELSE rest

\* The request loop of deliverFrame_1_1 over the swapped-in deque `reqs`;
\* `accept` is the set of clients whose deliverFrame() returns true.
\*   deferred: what the loop pushes to mNextRequests, in order
\*   served:   the clients counted in frameDeliveriesV1, in order
RECURSIVE ServeRequests(_, _, _)
ServeRequests(reqs, timestamp, accept) ==
    IF reqs = <<>> THEN [deferred |-> <<>>, served |-> <<>>]
    ELSE LET req == Head(reqs)
             rest == ServeRequests(Tail(reqs), timestamp, accept)
         IN  IF ~Promotes(req.client) THEN rest
             ELSE IF TooSoon(timestamp, req)
                  THEN [rest EXCEPT !.deferred = <<req>> \o @]
             ELSE IF req.client \in accept
                  THEN [rest EXCEPT !.served = <<req.client>> \o @]
             ELSE rest

\* The legacy loop of deliverFrame_1_1: the v1.0 clients that take the frame.
LegacyTakers(clients, accept) ==
    SelectSeq(clients, LAMBDA c : Promotes(c) /\ ~(version[c] > 0) /\ c \in accept)

Occurrences(s, c) == Cardinality({i \in 1..Len(s) : s[i] = c})

\* ------------------------------------------------------------------- Init
NoTimeline == -1
NoAsk == [n |-> 0, ok |-> FALSE]

InitHal ==
    /\ mClients = <<>>
    /\ mTimelines = [c \in Clients |-> NoTimeline]
    /\ mFrames = <<>>
    /\ mNextRequests = <<>>
    /\ mCurrentRequests = <<>>
    /\ pc = "idle"
    /\ cur = NoFrame
    /\ life = [c \in Clients |-> "none"]
    /\ version = [c \in Clients |-> 0]
    /\ holds = [c \in Clients |-> [b \in BufIds |-> 0]]
    /\ lastTs = [c \in Clients |-> 0]
    /\ hwFrames = 0
    /\ hwAsk = NoAsk
    /\ inUse = {}
    /\ nDelivered = 0
    /\ nReturned = 0
    /\ allTaken = TRUE

\* ------------------------------------------------ attach / detach (control)
\* EvsV4lCamera::setMaxFramesInFlight as the Broker sees it: the values
\* mFramesAllowed may have after a call that asks for n buffers while `used`
\* of the `allowed` ones are out, and that answers OK (ok) or not.
\*   OK, growth:     the buffers needed were allocated;
\*   OK, reduction:  idle buffers are freed, buffers that are out stay;
\*   refused growth: the allocator gave fewer buffers than needed.  Those it
\*                   gave are freed again; when it gave none,
\*                   decreaseAvailableFrames_Locked(0) frees every idle buffer;
\*   refused otherwise (camera lost, more than the limit): nothing changes.
FramesAllowedAfter(allowed, used, n, ok) ==
    IF ok THEN {IF allowed < n THEN n ELSE IF used > n THEN used ELSE n}
    ELSE IF allowed < n THEN {allowed, used}
    ELSE {allowed}

\* (mutant) the Frame Tracker compacted whatever the device answers
ChangeFramesInFlightAlwaysCompacts(clients, delta, ok) ==
    /\ hwAsk' = [n |-> BufferCount(clients, delta), ok |-> ok]
    /\ hwFrames' \in FramesAllowedAfter(hwFrames, Cardinality(inUse),
                                        BufferCount(clients, delta), ok)
    /\ mFrames' = CompactFrames(mFrames)

\* changeFramesInFlight(delta) over the client list `clients`; `ok` is the
\* answer of mHwCamera->setMaxFramesInFlight.
ChangeFramesInFlight(clients, delta, ok) ==
    /\ hwAsk' = [n |-> BufferCount(clients, delta), ok |-> ok]
    /\ hwFrames' \in FramesAllowedAfter(hwFrames, Cardinality(inUse),
                                        BufferCount(clients, delta), ok)
    /\ mFrames' = IF ok THEN CompactFrames(mFrames) ELSE mFrames

\* (mutant) the timeline created before the pool is enlarged
MakeVirtualCameraTimelineFirst(c, v, ok) ==
    /\ life[c] = "none"
    /\ \A d \in Clients : d < c => life[d] # "none"
    /\ ChangeFramesInFlight(mClients, AllowedBuffers(c), ok)
    /\ mTimelines' = [mTimelines EXCEPT ![c] = 0]
    /\ IF ok
       THEN /\ mClients' = Append(mClients, c)
            /\ life' = [life EXCEPT ![c] = "alive"]
            /\ version' = [version EXCEPT ![c] = v]
       ELSE /\ life' = [life EXCEPT ![c] = "dead"]
            /\ UNCHANGED <<mClients, version>>
    /\ UNCHANGED <<mNextRequests, mCurrentRequests, pc, cur, holds, lastTs,
                   inUse, nDelivered, nReturned, allTaken, shVars, ctlVars, drvVars>>

\* makeVirtualCamera -> ownVirtualCamera, for a new client object c with
\* stream receiver version v.  Client objects are numbered as they are made.
MakeVirtualCamera(c, v, ok) ==
    /\ life[c] = "none"
    /\ \A d \in Clients : d < c => life[d] # "none"
    /\ ChangeFramesInFlight(mClients, AllowedBuffers(c), ok)
    /\ IF ok
       THEN /\ mTimelines' = [mTimelines EXCEPT ![c] = 0]
            /\ mClients' = Append(mClients, c)
            /\ life' = [life EXCEPT ![c] = "alive"]
            /\ version' = [version EXCEPT ![c] = v]
       ELSE /\ life' = [life EXCEPT ![c] = "dead"]
            /\ UNCHANGED <<mTimelines, mClients, version>>
    /\ UNCHANGED <<mNextRequests, mCurrentRequests, pc, cur, holds, lastTs,
                   inUse, nDelivered, nReturned, allTaken, shVars, ctlVars, drvVars>>

\* disownVirtualCamera(c).  The caller still holds its reference, so the object
\* outlives the call ("closed").  A client hands its frames back before it goes.
DisownVirtualCamera(c, ok) ==
    /\ life[c] = "alive"
    /\ \A b \in BufIds : holds[c][b] = 0
    /\ mClients' = RemoveClient(mClients, c)
    /\ ChangeFramesInFlight(mClients', 0, ok)
    /\ life' = [life EXCEPT ![c] = "closed"]
    /\ UNCHANGED <<mTimelines, mNextRequests, mCurrentRequests, pc, cur, version,
                   holds, lastTs, inUse, nDelivered, nReturned, allTaken, shVars, ctlVars, drvVars>>

\* The last strong reference to a client goes away, with or without a detach;
\* from now on promote() of the Broker's weak references to it yields null.
DropClient(c) ==
    /\ Promotes(c)
    /\ \A b \in BufIds : holds[c][b] = 0
    /\ life' = [life EXCEPT ![c] = "dead"]
    /\ UNCHANGED <<mClients, mTimelines, mFrames, mNextRequests, mCurrentRequests,
                   pc, cur, version, holds, lastTs, hwFrames, hwAsk, inUse, nDelivered,
                   nReturned, allTaken, shVars, ctlVars, drvVars>>

\* ------------------------------------------------------------ requestNewFrame
\* A paced client asks for its next frame, passing the timestamp of the frame
\* it got last, once the fence of its previous request has been signalled.
RequestNewFrame(c) ==
    /\ life[c] = "alive"
    /\ version[c] > 0
    /\ mTimelines[c] = 0
    /\ mTimelines' = [mTimelines EXCEPT ![c] = @ + 1]
    /\ mNextRequests' = Append(mNextRequests, [client |-> c, timestamp |-> lastTs[c]])
    /\ UNCHANGED <<mClients, mFrames, mCurrentRequests, pc, cur, life, version,
                   holds, lastTs, hwFrames, hwAsk, inUse, nDelivered, nReturned, allTaken,
                   shVars, ctlVars, drvVars>>

\* ------------------------------------------------------------ the device
\* EvsV4lCamera::forwardFrame: a frame goes out only while fewer than
\* mFramesAllowed buffers are in use, in the first buffer that is free.
NextBuffer(id) ==
    /\ Cardinality(inUse) < hwFrames
    /\ id \notin inUse
    /\ \A b \in BufIds \ inUse : id <= b

\* EvsV4lCamera::doneWithFrame_1_1: the buffer is free again ("ignoring
\* doneWithFrame called on frame which is already free" otherwise).
DeviceDone(id) ==
    /\ inUse' = inUse \ {id}
    /\ nReturned' = nReturned + 1

\* ------------------------------------------------------------ deliverFrame_1_1
\* First half: the request loop under mFrameMutex and the legacy fan-out.
DeliverFanOut(id, timestamp, accept) ==
    /\ pc = "idle"
    /\ nDelivered < MaxFrames
    /\ NextBuffer(id)
    /\ timestamp \in TimeOfFrame(nDelivered + 1)
    /\ accept \subseteq {c \in Clients : Promotes(c)}
    /\ LET r == ServeRequests(mNextRequests, timestamp, accept)
           takers == r.served \o LegacyTakers(mClients, accept)
       IN  /\ mNextRequests' = mCurrentRequests \o r.deferred
           /\ mCurrentRequests' = <<>>
           /\ mTimelines' = [c \in Clients |->
                  mTimelines[c] - Occurrences(r.served, c)]
           /\ holds' = [c \in Clients |->
                  [holds[c] EXCEPT ![id] = @ + Occurrences(takers, c)]]
           /\ lastTs' = [c \in Clients |->
                  IF Occurrences(r.served, c) > 0 THEN timestamp ELSE lastTs[c]]
           /\ cur' = [id |-> id, ts |-> timestamp, n |-> Len(takers), accept |-> accept,
                     kept |-> r.deferred]
           /\ allTaken' = (allTaken /\ Len(takers) > 0)
    /\ inUse' = inUse \cup {id}
    /\ nDelivered' = nDelivered + 1
    /\ pc' = "track"
    /\ UNCHANGED <<mClients, mFrames, life, version, hwFrames, hwAsk, nReturned, shVars, ctlVars, drvVars>>

\* Second half: "If none of our clients could accept the frame, then return it
\* right away", else "Add an entry for this frame in our tracking list."
DeliverTrack ==
    /\ pc = "track"
    /\ IF cur.n < 1
       THEN /\ DeviceDone(cur.id)
            /\ UNCHANGED mFrames
       ELSE /\ mFrames' = RegisterFrame(mFrames, cur.id, cur.n)
            /\ UNCHANGED <<inUse, nReturned>>
    /\ pc' = "idle"
    /\ cur' = NoFrame
    /\ UNCHANGED <<mClients, mTimelines, mNextRequests, mCurrentRequests, life,
                   version, holds, lastTs, hwFrames, hwAsk, nDelivered, allTaken, shVars, ctlVars, drvVars>>

\* ------------------------------------------------------------- doneWithFrame
\* A client gives back a frame it holds (no lock is taken).
DoneWithFrame(c, id) ==
    /\ holds[c][id] > 0
    /\ holds' = [holds EXCEPT ![c][id] = @ - 1]
    /\ mFrames' = DoneFrames(mFrames, id)
    /\ IF DoneReturns(mFrames, id)
       THEN DeviceDone(id)
       ELSE UNCHANGED <<inUse, nReturned>>
    /\ UNCHANGED <<mClients, mTimelines, mNextRequests, mCurrentRequests, pc, cur,
                   life, version, lastTs, hwFrames, hwAsk, nDelivered, allTaken, shVars, ctlVars, drvVars>>

HalNext ==
    \/ \E c \in FrameClients, v \in Versions, ok \in BOOLEAN :
           MakeVirtualCamera(c, v, ok)
    \/ \E c \in FrameClients, ok \in BOOLEAN : DisownVirtualCamera(c, ok)
    \/ \E c \in FrameClients : DropClient(c)
    \/ \E c \in FrameClients : RequestNewFrame(c)
    \/ \E id \in BufIds, t \in TimeOfFrame(nDelivered + 1), a \in SUBSET FrameClients :
           DeliverFanOut(id, t, a)
    \/ DeliverTrack
    \/ \E c \in FrameClients, id \in BufIds : DoneWithFrame(c, id)

\* ----------------------------------------------------------- StreamHandler
Slots == {0, 1}
\* What a buffer descriptor read by the handler may name: a buffer of the
\* camera, or 0 for a descriptor nothing was stored in.
Descs == {0} \cup ShBufs

InitSH ==
    /\ mReadyBuffer = -1
    /\ mHeldBuffer = -1
    /\ mBuffers = [s \in Slots |-> 0]
    /\ camDelivered = [b \in ShBufs |-> 0]
    /\ camReturned = [d \in Descs |-> 0]
    /\ camLast = 0
    /\ shOp = [op |-> "none", arg |-> 0, ret |-> 0]
    /\ shCalls = 0
    /\ mRunning = FALSE
    /\ stopPc = "idle"
    /\ mSignal = FALSE
    /\ camStream = "off"

\* (mutant) the slot the consumer holds taken for the frame on deck
ReadySlotHeld(ready, held) ==
    IF ready >= 0 THEN ready
    ELSE IF held >= 0 THEN held
    ELSE 0

\* (mutant) a frame that replaces the ready one saved in the other slot
ReadySlotOther(ready, held) ==
    IF ready >= 0 THEN 1 - ready
    ELSE IF held >= 0 THEN 1 - held
    ELSE 0

\* deliverFrame_1_1: the slot the new frame is saved in.
ReadySlotFor(ready, held) ==
    IF ready >= 0 THEN ready
    ELSE IF held >= 0 THEN 1 - held
    ELSE 0

\* mSignal.notify_all(): it wakes the thread blocked in mSignal.wait, if any.
NotifyAll == mSignal \/ stopPc = "waiting"

\* StreamHandler::deliverFrame_1_1(buffers); `null` says buffers[0] carries a
\* null native handle.  The camera delivers a buffer it owns.
SHDeliverFrame(id, null) ==
    /\ shCalls < MaxCalls
    /\ camReturned[id] >= camDelivered[id]
    /\ IF null
       THEN UNCHANGED <<mReadyBuffer, mBuffers, camReturned, camDelivered, camLast>>
       ELSE /\ camReturned' = IF mReadyBuffer >= 0
                              THEN [camReturned EXCEPT ![mBuffers[mReadyBuffer]] = @ + 1]
                              ELSE camReturned
            /\ mReadyBuffer' = ReadySlotFor(mReadyBuffer, mHeldBuffer)
            /\ mBuffers' = [mBuffers EXCEPT ![mReadyBuffer'] = id]
            /\ camDelivered' = [camDelivered EXCEPT ![id] = @ + 1]
            /\ camLast' = id
    /\ shOp' = [op |-> IF null THEN "deliverNull" ELSE "deliver", arg |-> id, ret |-> 0]
    /\ shCalls' = shCalls + 1
    /\ mSignal' = NotifyAll
    /\ UNCHANGED <<mHeldBuffer, mRunning, stopPc, camStream, halVars, ctlVars, drvVars>>

\* StreamHandler::newFrameAvailable()
NewFrameAvailable == mReadyBuffer >= 0

\* (mutant) the test for a frame still held left out
HeldSlotNoGuard(ready, held) ==
    IF ready >= 0 THEN ready
    ELSE IF held >= 0 THEN held
    ELSE 0

\* getNewFrame: the slot held when it returns.
HeldSlotAfterGet(ready, held) ==
    IF held >= 0 THEN held
    ELSE IF ready < 0 THEN 0
    ELSE ready

\* StreamHandler::getNewFrame(); ret is the bufferId of the reference returned.
SHGetNewFrame ==
    /\ shCalls < MaxCalls
    /\ mHeldBuffer' = HeldSlotAfterGet(mReadyBuffer, mHeldBuffer)
    /\ mReadyBuffer' = IF mHeldBuffer >= 0 THEN mReadyBuffer ELSE -1
    /\ shOp' = [op |-> "get", arg |-> 0, ret |-> mBuffers[mHeldBuffer']]
    /\ shCalls' = shCalls + 1
    /\ UNCHANGED <<mBuffers, camDelivered, camReturned, camLast, runVars, halVars, ctlVars, drvVars>>

\* doneWithFrame: the descriptor sent back, frames[0] = mBuffers[mHeldBuffer].
\* With mHeldBuffer = -1 the read is outside the array and yields `stray`.
ForwardedOnDone(held, bufs, stray) ==
    IF held >= 0 THEN bufs[held] ELSE stray

\* StreamHandler::doneWithFrame(bufDesc_1_1) with bufDesc_1_1.bufferId = id.
SHDoneWithFrame(id, stray) ==
    /\ shCalls < MaxCalls
    /\ camReturned' = [camReturned EXCEPT
                          ![ForwardedOnDone(mHeldBuffer, mBuffers, stray)] = @ + 1]
    /\ mHeldBuffer' = -1
    /\ shOp' = [op |-> "done", arg |-> id,
                ret |-> ForwardedOnDone(mHeldBuffer, mBuffers, stray)]
    /\ shCalls' = shCalls + 1
    /\ UNCHANGED <<mReadyBuffer, mBuffers, camDelivered, camLast, runVars, halVars, ctlVars, drvVars>>

SHNext ==
    \/ \E id \in ShBufs, null \in BOOLEAN : SHDeliverFrame(id, null)
    \/ SHGetNewFrame
    \/ \E id \in ShBufs, stray \in Descs : SHDoneWithFrame(id, stray)

\* ------------------------------------------- StreamHandler, start and stop
slotVars == <<mReadyBuffer, mHeldBuffer, mBuffers, camDelivered, camReturned,
              camLast, shOp, shCalls>>

\* StreamHandler::startStream(); `ok` is the answer of startVideoStream.
SHStartStream(ok) ==
    /\ stopPc = "idle"
    /\ ~mRunning
    /\ camStream = "off"
    /\ mRunning' = ok
    /\ camStream' = IF ok THEN "on" ELSE camStream
    /\ shOp' = [op |-> "start", arg |-> 0, ret |-> IF ok THEN 1 ELSE 0]
    /\ UNCHANGED <<mReadyBuffer, mHeldBuffer, mBuffers, camDelivered, camReturned,
                   camLast, shCalls, stopPc, mSignal, halVars, ctlVars, drvVars>>

\* A frame of the running camera; frames sent before the camera stopped may
\* still arrive until its STREAM_STOPPED does.
SHStreamFrame(id) ==
    /\ camStream \in {"on", "stopping"}
    /\ SHDeliverFrame(id, FALSE)

\* blockingStopStream, first statement: asyncStopStream(), which calls
\* mCamera->stopVideoStream() and returns.
SHAsyncStopStream ==
    /\ stopPc = "idle"
    /\ stopPc' = "asked"
    /\ camStream' = IF camStream = "on" THEN "stopping" ELSE camStream
    /\ UNCHANGED <<slotVars, mRunning, mSignal, halVars, ctlVars, drvVars>>

\* The predicate of the wait, `!mRunning`.
StopMayReturn(running) == ~running

\* blockingStopStream, after it has taken mLock: `if (mRunning) mSignal.wait(
\* lock, [this]() { return !mRunning; })`.
SHStopLock ==
    /\ stopPc = "asked"
    /\ stopPc' = IF StopMayReturn(mRunning) THEN "returned" ELSE "waiting"
    /\ mSignal' = FALSE
    /\ UNCHANGED <<slotVars, mRunning, camStream, halVars, ctlVars, drvVars>>

\* The waiting thread is woken by a notify_all and tests the predicate again.
SHStopWake ==
    /\ stopPc = "waiting"
    /\ mSignal
    /\ mSignal' = FALSE
    /\ stopPc' = IF StopMayReturn(mRunning) THEN "returned" ELSE "waiting"
    /\ UNCHANGED <<slotVars, mRunning, camStream, halVars, ctlVars, drvVars>>

\* The waiting thread wakes with no notify_all (a condition variable may wake
\* spuriously, and need not) and tests the predicate again.
SHStopSpuriousWake ==
    /\ stopPc = "waiting"
    /\ ~mSignal
    /\ StopMayReturn(mRunning)
    /\ stopPc' = "returned"
    /\ UNCHANGED <<slotVars, mRunning, mSignal, camStream, halVars, ctlVars, drvVars>>

\* StreamHandler::notify(event) for the camera's STREAM_STOPPED: mRunning is
\* cleared under mLock; mSignal is not notified.
SHNotifyStopped ==
    /\ camStream = "stopping"
    /\ camStream' = "off"
    /\ mRunning' = FALSE
    /\ shOp' = [op |-> "notify", arg |-> 0, ret |-> 0]
    /\ UNCHANGED <<mReadyBuffer, mHeldBuffer, mBuffers, camDelivered, camReturned,
                   camLast, shCalls, stopPc, mSignal, halVars, ctlVars, drvVars>>

StopNext ==
    \/ \E ok \in BOOLEAN : SHStartStream(ok)
    \/ \E id \in ShBufs : SHStreamFrame(id)
    \/ SHAsyncStopStream
    \/ SHStopLock
    \/ SHStopWake
    \/ SHStopSpuriousWake
    \/ SHNotifyStopped

\* ------------------------------------------- HalCamera, control plane
\* Camera parameters and the values the device can hold for them.
ParamIds == {1, 2}
ParamValues == {0, 1}

\* The events the device sends in the model.
EventTypes == {"STREAM_STOPPED", "TIMEOUT"}

NoEvent == [aType |-> "NONE", p0 |-> 0, p1 |-> 0, to |-> [c \in Clients |-> 0]]

InitCtl ==
    /\ mMaster = 0
    /\ mStreamState = "STOPPED"
    /\ streaming = [c \in Clients |-> "idle"]
    /\ hwOn = FALSE
    /\ hwStopped = FALSE
    /\ hwStarts = 0
    /\ hwStops = 0
    /\ hwParam = [i \in ParamIds |-> 0]
    /\ ctlOp = [op |-> "none", c |-> 0, ret |-> "OK", id |-> 0, value |-> 0]
    /\ ctlEv = NoEvent
    /\ ctlTick = FALSE

\* mMaster.promote(): the master while its object exists, else null.
MasterPromote == IF mMaster # 0 /\ Promotes(mMaster) THEN mMaster ELSE 0

\* The loop of notify over mClients: how often vCam->notify(event) is called
\* on each client.
ForwardTo(clients) ==
    [c \in Clients |-> IF Promotes(c) THEN Occurrences(clients, c) ELSE 0]

\* prevMaster->notify(event) of forceMaster
OnlyTo(d) == [c \in Clients |-> IF c = d THEN 1 ELSE 0]

\* HalCamera::notify(event): the stream state after it.
StateAfterNotify(aType, state) == IF aType = "STREAM_STOPPED" THEN "STOPPED" ELSE state

\* (mutant) a write of mStreamState on every clientStreamStarting
StartsFromAny(state) == TRUE

\* clientStreamStarting: `mStreamState == STOPPED`
StartsFrom(state) == state = "STOPPED"

\* VirtualCamera::startVideoStream -> HalCamera::clientStreamStarting, for a
\* client that is not streaming yet; `ok` is the device's answer to
\* startVideoStream, which refuses while it has a stream receiver.
ClientStreamStarting(c, ok) ==
    /\ life[c] = "alive"
    /\ streaming[c] = "idle"
    /\ ok => ~hwOn
    /\ IF StartsFrom(mStreamState)
       THEN /\ mStreamState' = "RUNNING"
            /\ hwStarts' = hwStarts + 1
            /\ hwOn' = (hwOn \/ ok)
            /\ ctlOp' = [op |-> "start", c |-> c, ret |-> IF ok THEN "OK" ELSE "ERROR",
                         id |-> 0, value |-> 0]
       ELSE /\ UNCHANGED <<mStreamState, hwStarts, hwOn>>
            /\ ctlOp' = [op |-> "start", c |-> c, ret |-> "OK", id |-> 0, value |-> 0]
    /\ streaming' = [streaming EXCEPT ![c] = IF ctlOp'.ret = "OK" THEN "running" ELSE @]
    /\ ctlEv' = NoEvent
    /\ ctlTick' = ~ctlTick
    /\ UNCHANGED <<mMaster, hwStopped, hwStops, hwParam, halVars, shVars, drvVars>>

\* clientStreamEnding: mNextRequests->erase(itReq) for the first request of c.
EraseFirstRequest(reqs, c) ==
    LET hit == {k \in 1..Len(reqs) : reqs[k].client = c}
    IN  IF hit = {} THEN reqs
        ELSE LET k == CHOOSE i \in hit : \A j \in hit : i <= j
             IN  SubSeq(reqs, 1, k - 1) \o SubSeq(reqs, k + 1, Len(reqs))

\* clientStreamEnding: mClients.erase(itCam) for the first entry that promotes
\* to the client.
EraseFirstClient(clients, c) ==
    LET hit == {k \in 1..Len(clients) : clients[k] = c /\ Promotes(c)}
    IN  IF hit = {} THEN clients
        ELSE LET k == CHOOSE i \in hit : \A j \in hit : i <= j
             IN  SubSeq(clients, 1, k - 1) \o SubSeq(clients, k + 1, Len(clients))

\* (mutant) the device stopped at every clientStreamEnding
StillRunningNever(clients, strm) == FALSE

\* requestNewFrame by a client whose timeline clientStreamEnding has erased:
\* `mTimelines[id]` then yields an empty unique_ptr, which
\* `->BumpFenceEventCounter()` dereferences.  The call is recorded with the
\* result NULL_TIMELINE; nothing is enqueued.
RequestNewFrameNoTimeline(c) ==
    /\ life[c] = "alive"
    /\ version[c] > 0
    /\ mTimelines[c] = NoTimeline
    /\ ctlOp' = [op |-> "requestNewFrame", c |-> c, ret |-> "NULL_TIMELINE",
                 id |-> 0, value |-> 0]
    /\ ctlEv' = NoEvent
    /\ ctlTick' = ~ctlTick
    /\ UNCHANGED <<mMaster, mStreamState, streaming, hwOn, hwStopped, hwStarts, hwStops,
                   hwParam, halVars, shVars, drvVars>>

\* clientStreamEnding: "Do we still have a running client?"
StillRunning(clients, strm) ==
    \E k \in 1..Len(clients) : Promotes(clients[k]) /\ strm[clients[k]] = "running"

\* VirtualCamera::stopVideoStream -> HalCamera::clientStreamEnding(c), for a
\* client that is streaming; the client has left its RUNNING state by then.
ClientStreamEnding(c) ==
    /\ Promotes(c)
    /\ streaming[c] = "running"
    /\ streaming' = [streaming EXCEPT ![c] = "ended"]
    /\ mNextRequests' = EraseFirstRequest(mNextRequests, c)
    /\ mTimelines' = IF mNextRequests' # mNextRequests
                     THEN [mTimelines EXCEPT ![c] = NoTimeline]
                     ELSE mTimelines
    /\ mClients' = EraseFirstClient(mClients, c)
    /\ IF StillRunning(mClients', streaming')
       THEN UNCHANGED <<mStreamState, hwOn, hwStopped, hwStops>>
       ELSE /\ mStreamState' = "STOPPING"
            /\ hwOn' = FALSE
            /\ hwStopped' = (hwStopped \/ hwOn)
            /\ hwStops' = hwStops + 1
    /\ ctlOp' = [op |-> "end", c |-> c, ret |-> "OK", id |-> 0, value |-> 0]
    /\ ctlEv' = NoEvent
    /\ ctlTick' = ~ctlTick
    /\ UNCHANGED <<mMaster, hwStarts, hwParam, mFrames, mCurrentRequests, pc, cur, life,
                   version, holds, lastTs, hwFrames, hwAsk, inUse, nDelivered, nReturned,
                   allTaken, shVars, drvVars>>

\* (mutant) the loop of notify given up at the first forward that fails
NotifyLoopStopsAtFailure(clients, failed) ==
    [c \in Clients |->
        IF Promotes(c) /\ Occurrences(clients, c) > 0
           /\ \A i \in 1..Len(clients) :
                  (clients[i] \in failed /\ Promotes(clients[i])) =>
                      \A j \in 1..Len(clients) : clients[j] = c => j <= i
        THEN Occurrences(clients, c) ELSE 0]

\* The loop of notify when vCam->notify(event) returns false for the clients
\* in `failed`: "Failed to forward an event" is logged and the loop goes on.
NotifyLoop(clients, failed) == ForwardTo(clients)

\* HalCamera::notify(event) called by the device: its STREAM_STOPPED after a
\* stopVideoStream, or another event (such as TIMEOUT) at any time.  `failed`
\* are the clients whose own notify returns false; the event recorded carries
\* them and the stream state the clients find when they are notified.
DeviceNotify(aType, failed) ==
    /\ aType = "STREAM_STOPPED" => hwStopped
    /\ failed \subseteq {c \in Clients : Promotes(c) /\ Occurrences(mClients, c) > 0}
    /\ hwStopped' = IF aType = "STREAM_STOPPED" THEN FALSE ELSE hwStopped
    /\ mStreamState' = StateAfterNotify(aType, mStreamState)
    /\ ctlOp' = [op |-> "notify", c |-> 0, ret |-> "OK", id |-> 0, value |-> 0]
    /\ ctlEv' = [aType |-> aType, p0 |-> 0, p1 |-> 0,
                 to |-> NotifyLoop(mClients, failed),
                 failed |-> failed,
                 state |-> StateAfterNotify(aType, mStreamState)]
    /\ ctlTick' = ~ctlTick
    /\ UNCHANGED <<mMaster, streaming, hwOn, hwStarts, hwStops, hwParam, halVars, shVars, drvVars>>

\* (mutant) the master replaced whoever holds the role
MasterIsFreeAlways(master) == TRUE

\* setMaster: `mMaster == nullptr`, a comparison of the weak reference's
\* pointer, which the death of the object does not clear.
MasterIsFree(master) == master = 0

\* HalCamera::setMaster(c)
SetMaster(c) ==
    /\ life[c] = "alive"
    /\ IF MasterIsFree(mMaster)
       THEN /\ mMaster' = c
            /\ ctlOp' = [op |-> "setMaster", c |-> c, ret |-> "OK", id |-> 0, value |-> 0]
       ELSE /\ mMaster' = mMaster
            /\ ctlOp' = [op |-> "setMaster", c |-> c, ret |-> "OWNERSHIP_LOST",
                         id |-> 0, value |-> 0]
    /\ ctlEv' = NoEvent
    /\ ctlTick' = ~ctlTick
    /\ UNCHANGED <<mStreamState, streaming, hwOn, hwStopped, hwStarts, hwStops, hwParam,
                   halVars, shVars, drvVars>>

\* ------------------------------------------ setMaster, thread by thread
\* setMaster takes no lock, so the test `mMaster == nullptr` and the assignment
\* `mMaster = virtualCamera` of one thread are two steps between which another
\* client's thread may run.
InitRace ==
    /\ smPc = [c \in Clients |-> "idle"]
    /\ smRet = [c \in Clients |-> "NONE"]

\* setMaster(c) up to the test: the thread goes on to the assignment, or
\* returns OWNERSHIP_LOST.
SetMasterTest(c) ==
    /\ life[c] = "alive"
    /\ smPc[c] = "idle"
    /\ IF MasterIsFree(mMaster)
       THEN /\ smPc' = [smPc EXCEPT ![c] = "assign"]
            /\ UNCHANGED <<smRet, ctlOp, ctlTick>>
       ELSE /\ smRet' = [smRet EXCEPT ![c] = "OWNERSHIP_LOST"]
            /\ ctlOp' = [op |-> "setMaster", c |-> c, ret |-> "OWNERSHIP_LOST",
                         id |-> 0, value |-> 0]
            /\ ctlTick' = ~ctlTick
            /\ UNCHANGED smPc
    /\ UNCHANGED <<mMaster, mStreamState, streaming, hwOn, hwStopped, hwStarts, hwStops,
                   hwParam, ctlEv, halVars, shVars, devVars, poolVars, lockVars, svVars>>

\* setMaster(c), the assignment and `return EvsResult::OK`.
SetMasterAssign(c) ==
    /\ smPc[c] = "assign"
    /\ mMaster' = c
    /\ smPc' = [smPc EXCEPT ![c] = "idle"]
    /\ smRet' = [smRet EXCEPT ![c] = "OK"]
    /\ ctlOp' = [op |-> "setMaster", c |-> c, ret |-> "OK", id |-> 0, value |-> 0]
    /\ ctlTick' = ~ctlTick
    /\ UNCHANGED <<mStreamState, streaming, hwOn, hwStopped, hwStarts, hwStops,
                   hwParam, ctlEv, halVars, shVars, devVars, poolVars, lockVars, svVars>>

\* Clients attach and call setMaster, each on a thread of its own; nobody
\* gives the role up or takes it by force.
RaceNext ==
    \/ \E c \in Clients, ok \in BOOLEAN : MakeVirtualCamera(c, 1, ok)
    \/ \E c \in Clients : SetMasterTest(c)
    \/ \E c \in Clients : SetMasterAssign(c)

\* --------------------------------------------- mFrameMutex and callbacks
\* mFrameMutex is a std::mutex: a thread that asks for it while it is held,
\* by itself or by a thread that waits for it, waits.
InitLock ==
    /\ mFrameMutex = "none"
    /\ evPc = "idle"
    /\ evType = "NONE"
    /\ evLeft = 0
    /\ cbPc = "idle"
    /\ cbOp = "none"
    /\ dlPc = "idle"
    /\ rqPc = "idle"

\* The events HalCamera::notify forwards: from the device, from unsetMaster
\* and from setParameter.
ForwardedEvents == {"STREAM_STOPPED", "MASTER_RELEASED", "PARAMETER_CHANGED"}
\* The Broker methods that take mFrameMutex and a client may call.
LockingCalls == {"requestNewFrame", "clientStreamEnding"}

\* (mutant) notify forwarding the event inside a lock_guard of mFrameMutex
NotifyLocksAlways(aType) == TRUE

\* Whether HalCamera::notify holds mFrameMutex while it forwards: there is no
\* lock_guard in it, nor in unsetMaster and setParameter, which call it.
NotifyLocks(aType) == FALSE

\* notify(event) begins; n is the number of live clients in mClients.
EvBegin(aType, n) ==
    /\ evPc = "idle"
    /\ IF NotifyLocks(aType)
       THEN mFrameMutex = "none" /\ mFrameMutex' = "notify"
       ELSE UNCHANGED mFrameMutex
    /\ evPc' = "forward"
    /\ evType' = aType
    /\ evLeft' = n
    /\ UNCHANGED <<cbPc, cbOp, dlPc, rqPc, halVars, shVars, ctlVars, devVars,
                   poolVars, raceVars, svVars>>

\* `vCam->notify(event)` on the next client: the client's callback runs and
\* notify waits for it to return.
EvCall ==
    /\ evPc = "forward"
    /\ evLeft > 0
    /\ cbPc = "idle"
    /\ cbPc' = "called"
    /\ UNCHANGED <<mFrameMutex, evPc, evType, evLeft, cbOp, dlPc, rqPc, halVars,
                   shVars, ctlVars, devVars, poolVars, raceVars, svVars>>

\* The callback calls back into the Broker: requestNewFrame and
\* clientStreamEnding begin with a lock_guard of mFrameMutex.
CbReenter(op) ==
    /\ cbPc = "called"
    /\ cbPc' = "wantLock"
    /\ cbOp' = op
    /\ UNCHANGED <<mFrameMutex, evPc, evType, evLeft, dlPc, rqPc, halVars, shVars,
                   ctlVars, devVars, poolVars, raceVars, svVars>>

CbLock ==
    /\ cbPc = "wantLock"
    /\ mFrameMutex = "none"
    /\ mFrameMutex' = "callback"
    /\ cbPc' = "inLock"
    /\ UNCHANGED <<evPc, evType, evLeft, cbOp, dlPc, rqPc, halVars, shVars, ctlVars,
                   devVars, poolVars, raceVars, svVars>>

\* The locked scope of the called method ends.
CbUnlock ==
    /\ cbPc = "inLock"
    /\ mFrameMutex' = "none"
    /\ cbPc' = "called"
    /\ cbOp' = "none"
    /\ UNCHANGED <<evPc, evType, evLeft, dlPc, rqPc, halVars, shVars, ctlVars,
                   devVars, poolVars, raceVars, svVars>>

\* The callback returns to notify.
CbReturn ==
    /\ cbPc = "called"
    /\ cbPc' = "idle"
    /\ evLeft' = evLeft - 1
    /\ UNCHANGED <<mFrameMutex, evPc, evType, cbOp, dlPc, rqPc, halVars, shVars,
                   ctlVars, devVars, poolVars, raceVars, svVars>>

\* notify returns after the last client.
EvEnd ==
    /\ evPc = "forward"
    /\ evLeft = 0
    /\ cbPc = "idle"
    /\ evPc' = "idle"
    /\ evType' = "NONE"
    /\ mFrameMutex' = IF mFrameMutex = "notify" THEN "none" ELSE mFrameMutex
    /\ UNCHANGED <<evLeft, cbPc, cbOp, dlPc, rqPc, halVars, shVars, ctlVars, devVars,
                   poolVars, raceVars, svVars>>

\* deliverFrame_1_1: the request loop runs inside a lock_guard of mFrameMutex.
DlLock ==
    /\ dlPc = "idle"
    /\ mFrameMutex = "none"
    /\ mFrameMutex' = "deliver"
    /\ dlPc' = "loop"
    /\ UNCHANGED <<evPc, evType, evLeft, cbPc, cbOp, rqPc, halVars, shVars, ctlVars,
                   devVars, poolVars, raceVars, svVars>>

DlUnlock ==
    /\ dlPc = "loop"
    /\ mFrameMutex' = "none"
    /\ dlPc' = "idle"
    /\ UNCHANGED <<evPc, evType, evLeft, cbPc, cbOp, rqPc, halVars, shVars, ctlVars,
                   devVars, poolVars, raceVars, svVars>>

\* requestNewFrame called by a client on a thread of its own.
RqLock ==
    /\ rqPc = "idle"
    /\ mFrameMutex = "none"
    /\ mFrameMutex' = "request"
    /\ rqPc' = "inLock"
    /\ UNCHANGED <<evPc, evType, evLeft, cbPc, cbOp, dlPc, halVars, shVars, ctlVars,
                   devVars, poolVars, raceVars, svVars>>

RqUnlock ==
    /\ rqPc = "inLock"
    /\ mFrameMutex' = "none"
    /\ rqPc' = "idle"
    /\ UNCHANGED <<evPc, evType, evLeft, cbPc, cbOp, dlPc, halVars, shVars, ctlVars,
                   devVars, poolVars, raceVars, svVars>>

LockNext ==
    \/ \E aType \in ForwardedEvents, n \in 0..Cardinality(Clients) : EvBegin(aType, n)
    \/ EvCall
    \/ \E op \in LockingCalls : CbReenter(op)
    \/ CbLock
    \/ CbUnlock
    \/ CbReturn
    \/ EvEnd
    \/ DlLock
    \/ DlUnlock
    \/ RqLock
    \/ RqUnlock

\* (mutant) the loss of the role told to every client
ForceMasterBroadcast(prev) == ForwardTo(mClients)

\* forceMaster: who is told MASTER_RELEASED when prevMaster gives way.
ForceMasterNotifies(prev) == IF prev # 0 THEN OnlyTo(prev) ELSE NoEvent.to

\* HalCamera::forceMaster(c)
ForceMaster(c) ==
    /\ life[c] = "alive"
    /\ LET prev == MasterPromote
       IN  IF prev = c
           THEN /\ mMaster' = mMaster
                /\ ctlEv' = NoEvent
           ELSE /\ mMaster' = c
                /\ ctlEv' = IF prev # 0
                            THEN [aType |-> "MASTER_RELEASED", p0 |-> 0, p1 |-> 0,
                                  to |-> ForceMasterNotifies(prev)]
                            ELSE NoEvent
    /\ ctlOp' = [op |-> "forceMaster", c |-> c, ret |-> "OK", id |-> 0, value |-> 0]
    /\ ctlTick' = ~ctlTick
    /\ UNCHANGED <<mStreamState, streaming, hwOn, hwStopped, hwStarts, hwStops, hwParam,
                   halVars, shVars, drvVars>>

\* (mutant) the role given up by whoever asks
IsMasterAnyone(c) == TRUE

\* unsetMaster, setParameter: `mMaster.promote() == virtualCamera`
IsMaster(c) == MasterPromote = c

\* HalCamera::unsetMaster(c)
UnsetMaster(c) ==
    /\ life[c] = "alive"
    /\ IF ~IsMaster(c)
       THEN /\ UNCHANGED <<mMaster, mStreamState>>
            /\ ctlOp' = [op |-> "unsetMaster", c |-> c, ret |-> "INVALID_ARG",
                         id |-> 0, value |-> 0]
            /\ ctlEv' = NoEvent
       ELSE /\ mMaster' = 0
            /\ mStreamState' = StateAfterNotify("MASTER_RELEASED", mStreamState)
            /\ ctlOp' = [op |-> "unsetMaster", c |-> c, ret |-> "OK", id |-> 0, value |-> 0]
            /\ ctlEv' = [aType |-> "MASTER_RELEASED", p0 |-> 0, p1 |-> 0,
                         to |-> ForwardTo(mClients)]
    /\ ctlTick' = ~ctlTick
    /\ UNCHANGED <<streaming, hwOn, hwStopped, hwStarts, hwStops, hwParam, halVars, shVars, drvVars>>

\* (mutant) the write allowed to every client
MayWriteAnyone(c) == TRUE

\* setParameter: `virtualCamera == mMaster.promote()`
MayWrite(c) == IsMaster(c)

\* HalCamera::setParameter(c, id, value).  `ok` and `readValue` are what the
\* device answers: to setIntParameter for the master (readValue is what it
\* reads back after the write; a failed call may have written the value or
\* not, `wrote`), to getIntParameter for everybody else.
SetParameter(c, id, value, ok, readValue, wrote) ==
    /\ life[c] = "alive"
    /\ IF MayWrite(c)
       THEN /\ ~ok => readValue = value
            /\ ok => wrote
            /\ hwParam' = IF wrote THEN [hwParam EXCEPT ![id] = readValue] ELSE hwParam
            /\ ctlOp' = [op |-> "setParameter", c |-> c,
                         ret |-> IF ok THEN "OK" ELSE "UNDERLYING_SERVICE_ERROR",
                         id |-> id, value |-> readValue]
            /\ ctlEv' = IF ok
                        THEN [aType |-> "PARAMETER_CHANGED", p0 |-> id, p1 |-> readValue,
                              to |-> ForwardTo(mClients)]
                        ELSE NoEvent
       ELSE /\ ok => readValue = hwParam[id]
            /\ ~ok => readValue = value
            /\ ~wrote
            /\ hwParam' = hwParam
            /\ ctlOp' = [op |-> "setParameter", c |-> c, ret |-> "INVALID_ARG",
                         id |-> id, value |-> IF ok THEN readValue ELSE value]
            /\ ctlEv' = NoEvent
    /\ ctlTick' = ~ctlTick
    /\ UNCHANGED <<mMaster, mStreamState, streaming, hwOn, hwStopped, hwStarts, hwStops,
                   halVars, shVars, drvVars>>

\* Attach, detach and death of clients with the mastership arbiter.
MasterNext ==
    \/ \E c \in Clients, ok \in BOOLEAN : MakeVirtualCamera(c, 1, ok)
    \/ \E c \in Clients, ok \in BOOLEAN : DisownVirtualCamera(c, ok)
    \/ \E c \in Clients : DropClient(c)
    \/ \E c \in Clients : SetMaster(c)
    \/ \E c \in Clients : ForceMaster(c)
    \/ \E c \in Clients : UnsetMaster(c)
    \/ DeviceNotify("TIMEOUT", {})
    \/ \E c \in Clients, id \in ParamIds, v \in ParamValues, ok \in BOOLEAN,
          r \in ParamValues, w \in BOOLEAN : SetParameter(c, id, v, ok, r, w)

\* Attach, detach and death of clients with stream start and stop.
StreamNext ==
    \/ \E c \in Clients : MakeVirtualCamera(c, 1, TRUE)
    \/ \E c \in Clients : DisownVirtualCamera(c, TRUE)
    \/ \E c \in Clients : DropClient(c)
    \/ \E c \in Clients : RequestNewFrame(c)
    \/ \E c \in Clients : RequestNewFrameNoTimeline(c)
    \/ \E c \in Clients, ok \in BOOLEAN : ClientStreamStarting(c, ok)
    \/ \E c \in Clients : ClientStreamEnding(c)
    \/ DeviceNotify("STREAM_STOPPED", {})

\* --------------------------------------- EvsV4lCamera, stream start and stop
\* Threads that may be inside stopVideoStream at the same time.
Callers == {1, 2}
Receivers == {"v1_0", "v1_1"}
OutFormats == {"YCRCB_420_SP", "RGBA_8888", "YCBCR_422_I", "RGB_565"}
SrcFormats == {"NV21", "YUYV", "UYVY", "MJPG"}

InitDev ==
    /\ mStream = "none"
    /\ mRunMode = {}
    /\ capPc = "none"
    /\ stPc = [t \in Callers |-> "idle"]
    /\ markers = 0
    /\ owed = FALSE
    /\ lateFrame = FALSE
    /\ nullCall = FALSE
    /\ nFrames = 0
    /\ mFormat = "none"
    /\ v4lFormat = "none"
    /\ mFillBufferFromVideo = "unset"
    /\ fillFault = FALSE
    /\ devOp = [op |-> "none", ret |-> "OK"]
    /\ stopOp = [t \in Callers |-> "none"]

\* The switch of startVideoStream: the routine it assigns for the pair
\* (mFormat, videoSrcFormat), or "unset" where it only logs an error.
FillFor(out, src) ==
    CASE out = "YCRCB_420_SP" /\ src = "NV21" -> "fillNV21FromNV21"
      [] out = "YCRCB_420_SP" /\ src = "YUYV" -> "fillNV21FromYUYV"
      [] out = "RGBA_8888" /\ src = "YUYV" -> "fillRGBAFromYUYV"
      [] out = "YCBCR_422_I" /\ src = "YUYV" -> "fillYUYVFromYUYV"
      [] out = "YCBCR_422_I" /\ src = "UYVY" -> "fillYUYVFromUYVY"
      [] OTHER -> "unset"

\* The camera is opened: the output format is the default or the one of the
\* stream configuration asked for, the source format the one the V4L2 device
\* reports (VIDIOC_G_FMT).
DevOpen(out, src) ==
    /\ mFormat = "none"
    /\ mFormat' = out
    /\ v4lFormat' = src
    /\ UNCHANGED <<mStream, mRunMode, capPc, stPc, markers, owed, lateFrame, nullCall,
                   nFrames, mFillBufferFromVideo, fillFault, devOp, stopOp,
                   halVars, shVars, ctlVars, poolVars, extVars>>

\* EvsV4lCamera::startVideoStream(stream) with VideoCapture::startStream; `ok`
\* says the V4L2 calls of startStream succeed.
DevStartVideoStream(recv, ok) ==
    /\ mFormat # "none"
    /\ IF mStream # "none"
       THEN /\ devOp' = [op |-> "start", ret |-> "STREAM_ALREADY_RUNNING"]
            /\ UNCHANGED <<mStream, mRunMode, capPc, markers, owed, mFillBufferFromVideo>>
       ELSE /\ mFillBufferFromVideo' =
                   IF FillFor(mFormat, v4lFormat) = "unset" THEN mFillBufferFromVideo
                   ELSE FillFor(mFormat, v4lFormat)
            /\ mRunMode' = mRunMode \cup {"RUN"}
            /\ IF "RUN" \notin mRunMode /\ ok
               THEN /\ mStream' = recv
                    /\ capPc' = "test"
                    /\ markers' = 0
                    /\ owed' = FALSE
                    /\ devOp' = [op |-> "start", ret |-> "OK"]
               ELSE /\ devOp' = [op |-> "start", ret |-> "UNDERLYING_SERVICE_ERROR"]
                    /\ UNCHANGED <<mStream, capPc, markers, owed>>
    /\ UNCHANGED <<stPc, lateFrame, nullCall, nFrames, mFormat, v4lFormat, fillFault,
                   stopOp,
                   halVars, shVars, ctlVars, poolVars, extVars>>

\* VideoCapture::collectFrames, the loop test `while (mRunMode == RUN)`.
CapTest ==
    /\ capPc = "test"
    /\ capPc' = IF mRunMode = {"RUN"} THEN "frame" ELSE "ending"
    /\ UNCHANGED <<mStream, mRunMode, stPc, markers, owed, lateFrame, nullCall, nFrames,
                   mFormat, v4lFormat, mFillBufferFromVideo, fillFault, devOp,
                   stopOp,
                   halVars, shVars, ctlVars, poolVars, extVars>>

\* collectFrames -> forwardFrame with a buffer to fill: the frame goes through
\* mFillBufferFromVideo and to mStream_1_1 or, if that is null, to mStream.  The
\* receiver references are read without mAccessLock: when a stopVideoStream
\* has dropped them meanwhile, the call is made through a null reference, or
\* (stale) through the reference as it was read before, after the marker.
CapFrame(stale) ==
    /\ capPc = "frame"
    /\ nFrames < MaxFrames
    /\ stale => mStream = "none"
    /\ nFrames' = nFrames + 1
    /\ fillFault' = (fillFault \/ mFillBufferFromVideo = "unset")
    /\ IF mStream = "none"
       THEN /\ nullCall' = (nullCall \/ ~stale)
            /\ lateFrame' = (lateFrame \/ stale)
       ELSE /\ lateFrame' = (lateFrame \/ markers > 0)
            /\ UNCHANGED nullCall
    /\ capPc' = "test"
    /\ UNCHANGED <<mStream, mRunMode, stPc, markers, owed, mFormat, v4lFormat,
                   mFillBufferFromVideo, devOp, stopOp,
                   halVars, shVars, ctlVars, poolVars, extVars>>

\* forwardFrame with every buffer out: "Skipped a frame because too many are
\* in flight".
CapSkip ==
    /\ capPc = "frame"
    /\ capPc' = "test"
    /\ UNCHANGED <<mStream, mRunMode, stPc, markers, owed, lateFrame, nullCall, nFrames,
                   mFormat, v4lFormat, mFillBufferFromVideo, fillFault, devOp,
                   stopOp,
                   halVars, shVars, ctlVars, poolVars, extVars>>

\* collectFrames after the loop: `mRunMode = STOPPED`, and the thread ends.
CapEnd ==
    /\ capPc = "ending"
    /\ mRunMode' = {}
    /\ capPc' = "exited"
    /\ UNCHANGED <<mStream, stPc, markers, owed, lateFrame, nullCall, nFrames,
                   mFormat, v4lFormat, mFillBufferFromVideo, fillFault, devOp,
                   stopOp,
                   halVars, shVars, ctlVars, poolVars, extVars>>

\* stopVideoStream -> VideoCapture::stopStream, `mRunMode.fetch_or(STOPPING)`:
\* stopped already, the flag is taken back; stopping already, the call returns
\* ("Reentrancy is not supported!"); else the caller goes on to join the thread.
StopFetch(t) ==
    /\ mFormat # "none"
    /\ stPc[t] = "idle"
    /\ owed' = (owed \/ mStream # "none")
    /\ IF mRunMode = {}
       THEN /\ UNCHANGED mRunMode
            /\ stPc' = [stPc EXCEPT ![t] = "test"]
            /\ stopOp' = [stopOp EXCEPT ![t] = "unmapped"]
       ELSE IF "STOPPING" \in mRunMode
       THEN /\ UNCHANGED mRunMode
            /\ stPc' = [stPc EXCEPT ![t] = "test"]
            /\ stopOp' = [stopOp EXCEPT ![t] = "reentrancy"]
       ELSE /\ mRunMode' = mRunMode \cup {"STOPPING"}
            /\ stPc' = [stPc EXCEPT ![t] = "join"]
            /\ stopOp' = [stopOp EXCEPT ![t] = "joining"]
    /\ UNCHANGED <<mStream, capPc, markers, lateFrame, nullCall, nFrames,
                   mFormat, v4lFormat, mFillBufferFromVideo, fillFault, devOp,
                   halVars, shVars, ctlVars, poolVars, extVars>>

\* stopStream: mCaptureThread.join() returns once the thread has ended.
StopJoin(t) ==
    /\ stPc[t] = "join"
    /\ capPc \in {"none", "exited"}
    /\ capPc' = "none"
    /\ stPc' = [stPc EXCEPT ![t] = "test"]
    /\ stopOp' = [stopOp EXCEPT ![t] = "unmapped"]
    /\ UNCHANGED <<mStream, mRunMode, markers, owed, lateFrame, nullCall, nFrames,
                   mFormat, v4lFormat, mFillBufferFromVideo, fillFault, devOp,
                   halVars, shVars, ctlVars, poolVars, extVars>>

\* stopVideoStream after stopStream: `if (mStream_1_1 != nullptr) ... else if
\* (mStream != nullptr)`, tested before mAccessLock is taken.
StopTest(t) ==
    /\ stPc[t] = "test"
    /\ stPc' = [stPc EXCEPT ![t] = IF mStream = "v1_1" THEN "mark11"
                                   ELSE IF mStream = "v1_0" THEN "mark10"
                                   ELSE "idle"]
    /\ UNCHANGED <<mStream, mRunMode, capPc, markers, owed, lateFrame, nullCall, nFrames,
                   mFormat, v4lFormat, mFillBufferFromVideo, fillFault, devOp,
                   stopOp,
                   halVars, shVars, ctlVars, poolVars, extVars>>

\* stopVideoStream under mAccessLock: the STREAM_STOPPED event through
\* mStream_1_1, or the null frame through mStream, then the references are
\* dropped.
StopMark(t) ==
    /\ stPc[t] \in {"mark11", "mark10"}
    /\ IF (stPc[t] = "mark11" /\ mStream = "v1_1") \/ (stPc[t] = "mark10" /\ mStream # "none")
       THEN /\ markers' = markers + 1
            /\ UNCHANGED nullCall
       ELSE /\ nullCall' = TRUE
            /\ UNCHANGED markers
    /\ mStream' = "none"
    /\ stPc' = [stPc EXCEPT ![t] = "idle"]
    /\ UNCHANGED <<mRunMode, capPc, owed, lateFrame, nFrames,
                   mFormat, v4lFormat, mFillBufferFromVideo, fillFault, devOp,
                   stopOp,
                   halVars, shVars, ctlVars, poolVars, extVars>>

DevNext ==
    \/ \E out \in OutFormats, src \in SrcFormats : DevOpen(out, src)
    \/ \E recv \in Receivers, ok \in BOOLEAN : DevStartVideoStream(recv, ok)
    \/ CapTest
    \/ \E stale \in BOOLEAN : CapFrame(stale)
    \/ CapSkip
    \/ CapEnd
    \/ \E t \in Callers : StopFetch(t)
    \/ \E t \in Callers : StopJoin(t)
    \/ \E t \in Callers : StopTest(t)
    \/ \E t \in Callers : StopMark(t)

\* ------------------------------------------------ EvsV4lCamera, buffer pool
InitPool ==
    /\ v4lBuffers = <<>>
    /\ mFramesAllowed = 0
    /\ mFramesInUse = 0
    /\ fwdIdx = 0
    /\ poolOp = [n |-> 0, supply |-> 0, ret |-> "NONE", tick |-> FALSE]

\* The buffer counts a caller asks for: none, a few, and one beyond the limit.
PoolCounts == (0..MaxPool) \cup {MAX_BUFFERS_IN_FLIGHT + 1}

\* The buffers the allocator can give to one call: none, one, or all it is
\* asked for.
Supplies == {0, 1, MaxPool}

\* The records that hold a graphics buffer.
Handles(bufs) == {i \in 1..Len(bufs) : bufs[i].handle}

\* increaseAvailableFrames_Locked, one buffer the allocator has supplied:
\* "Find a place to store the new buffer", else emplace_back.
StoreBuffer(bufs) ==
    LET empty == {i \in 1..Len(bufs) : ~bufs[i].handle}
    IN  IF empty = {} THEN Append(bufs, [handle |-> TRUE, inUse |-> FALSE])
        ELSE LET i == CHOOSE k \in empty : \A j \in empty : k <= j
             IN  [bufs EXCEPT ![i] = [handle |-> TRUE, inUse |-> FALSE]]

\* increaseAvailableFrames_Locked(numToAdd) when the allocator supplies `supply`
\* buffers before it fails: the records after it; min(numToAdd, supply) are added.
RECURSIVE IncreaseAvailableFrames(_, _)
IncreaseAvailableFrames(bufs, added) ==
    IF added = 0 THEN bufs ELSE IncreaseAvailableFrames(StoreBuffer(bufs), added - 1)

\* decreaseAvailableFrames_Locked(numToRemove), the loop from record i on with
\* `removed` buffers freed so far: each idle record that holds a buffer is
\* freed, and the loop is left when, after a release, removed == numToRemove.
RECURSIVE DecreaseFrom(_, _, _, _)
DecreaseFrom(bufs, i, removed, numToRemove) ==
    IF i > Len(bufs) THEN [bufs |-> bufs, removed |-> removed]
    ELSE IF ~bufs[i].inUse /\ bufs[i].handle
         THEN IF removed + 1 = numToRemove
              THEN [bufs |-> [bufs EXCEPT ![i].handle = FALSE], removed |-> removed + 1]
              ELSE DecreaseFrom([bufs EXCEPT ![i].handle = FALSE], i + 1,
                                removed + 1, numToRemove)
         ELSE DecreaseFrom(bufs, i + 1, removed, numToRemove)

DecreaseAvailableFrames(bufs, numToRemove) == DecreaseFrom(bufs, 1, 0, numToRemove)

\* setAvailableFrames_Locked(bufferCount) with mFramesAllowed = allowed:
\* [ok, bufs, allowed] after it.
SetAvailableFrames(bufs, allowed, bufferCount, supply) ==
    IF bufferCount < 1 \/ bufferCount > MAX_BUFFERS_IN_FLIGHT
    THEN [ok |-> FALSE, bufs |-> bufs, allowed |-> allowed]
    ELSE IF allowed < bufferCount
    THEN LET needed == bufferCount - allowed
             added == IF supply < needed THEN supply ELSE needed
             grown == IncreaseAvailableFrames(bufs, added)
         IN  IF added # needed
             THEN LET back == DecreaseAvailableFrames(grown, added)
                  IN  [ok |-> FALSE, bufs |-> back.bufs,
                       allowed |-> allowed + added - back.removed]
             ELSE [ok |-> TRUE, bufs |-> grown, allowed |-> allowed + added]
    ELSE IF allowed > bufferCount
    THEN LET less == DecreaseAvailableFrames(bufs, allowed - bufferCount)
         IN  [ok |-> TRUE, bufs |-> less.bufs, allowed |-> allowed - less.removed]
    ELSE [ok |-> TRUE, bufs |-> bufs, allowed |-> allowed]

\* EvsV4lCamera::setMaxFramesInFlight(bufferCount); `open` is mVideo.isOpen()
\* and `supply` the number of buffers the allocator can give.
PoolSetMaxFramesInFlight(bufferCount, supply, open) ==
    /\ LET r == SetAvailableFrames(v4lBuffers, mFramesAllowed, bufferCount, supply)
       IN  IF ~open
           THEN /\ poolOp' = [n |-> bufferCount, supply |-> supply,
                              ret |-> "OWNERSHIP_LOST", tick |-> ~poolOp.tick]
                /\ UNCHANGED <<v4lBuffers, mFramesAllowed>>
           ELSE IF bufferCount < 1
           THEN /\ poolOp' = [n |-> bufferCount, supply |-> supply,
                              ret |-> "INVALID_ARG", tick |-> ~poolOp.tick]
                /\ UNCHANGED <<v4lBuffers, mFramesAllowed>>
           ELSE /\ poolOp' = [n |-> bufferCount, supply |-> supply,
                              ret |-> IF r.ok THEN "OK" ELSE "BUFFER_NOT_AVAILABLE",
                              tick |-> ~poolOp.tick]
                /\ v4lBuffers' = r.bufs
                /\ mFramesAllowed' = r.allowed
    /\ UNCHANGED <<mFramesInUse, fwdIdx, halVars, shVars, ctlVars, devVars, extVars>>

\* forwardFrame under mAccessLock, "Are we allowed to issue another buffer?"
\* (`mFramesInUse >= mFramesAllowed` compares unsigned counts): the first idle
\* record that holds a buffer is made busy.  The lock is released before the
\* frame is filled and sent.
PoolForwardFrame ==
    /\ fwdIdx = 0
    /\ mFramesInUse >= 0
    /\ mFramesInUse < mFramesAllowed
    /\ LET free == {i \in Handles(v4lBuffers) : ~v4lBuffers[i].inUse}
       IN  /\ free # {}
           /\ LET idx == CHOOSE k \in free : \A j \in free : k <= j
              IN  /\ v4lBuffers' = [v4lBuffers EXCEPT ![idx].inUse = TRUE]
                  /\ fwdIdx' = idx
    /\ mFramesInUse' = mFramesInUse + 1
    /\ UNCHANGED <<mFramesAllowed, poolOp, halVars, shVars, ctlVars, devVars, extVars>>

\* forwardFrame, "Since we didn't actually deliver it, mark the frame as
\* available".
GiveBack(bufs, idx) == [bufs EXCEPT ![idx].inUse = FALSE]

\* forwardFrame after the receiver's deliverFrame call has returned: `flag`
\* is result.isOk().  When the transport reports a failure the buffer is
\* marked available again under mAccessLock.
PoolForwardDone(flag) ==
    /\ fwdIdx # 0
    /\ fwdIdx' = 0
    /\ IF flag
       THEN UNCHANGED <<v4lBuffers, mFramesInUse>>
       ELSE /\ v4lBuffers' = GiveBack(v4lBuffers, fwdIdx)
            /\ mFramesInUse' = mFramesInUse - 1
    /\ UNCHANGED <<mFramesAllowed, poolOp, halVars, shVars, ctlVars, devVars, extVars>>

\* doneWithFrame_impl(bufferId), bufferId = i - 1, with a handle that is not
\* null: an id beyond the array and a buffer that is already free are
\* ignored; else the record is idle again, and a buffer "high in the array"
\* is moved to the first record that holds none.
PoolDoneWithFrame(i) ==
    /\ IF i > Len(v4lBuffers) \/ ~v4lBuffers[i].inUse
       THEN UNCHANGED <<v4lBuffers, mFramesInUse>>
       ELSE /\ mFramesInUse' = mFramesInUse - 1
            /\ LET idle == [v4lBuffers EXCEPT ![i].inUse = FALSE]
                   empty == {k \in 1..Len(idle) : ~idle[k].handle}
               IN  IF i - 1 >= mFramesAllowed /\ empty # {}
                   THEN LET k == CHOOSE e \in empty : \A j \in empty : e <= j
                        IN  v4lBuffers' = [idle EXCEPT ![k].handle = idle[i].handle,
                                                       ![i].handle = FALSE]
                   ELSE v4lBuffers' = idle
    /\ UNCHANGED <<mFramesAllowed, poolOp, fwdIdx, halVars, shVars, ctlVars, devVars,
                   extVars>>

PoolNext ==
    \/ \E n \in PoolCounts, supply \in Supplies, open \in BOOLEAN :
           PoolSetMaxFramesInFlight(n, supply, open)
    \/ PoolForwardFrame
    \/ \E flag \in BOOLEAN : PoolForwardDone(flag)
    \/ \E i \in 1..(MaxPool + 1) : PoolDoneWithFrame(i)

\* ------------------------------------------------- SurroundView3dSession
InitSv ==
    /\ svStreamState = "STOPPED"
    /\ mProcessingEvsFrames = FALSE
    /\ ptPc = "none"
    /\ svStopped = 0
    /\ svCam = "off"
    /\ svOp = [size |-> 0, busy |-> FALSE, given |-> 0, copied |-> FALSE, tick |-> FALSE]

\* The sizes of the batches the camera may deliver: the four frames of the
\* configuration, fewer, or more.
BatchSizes == {1, kNumFrames, kNumFrames + 1}

\* SurroundView3dSession::startStream on a session that is initialized, has
\* views and has not streamed before: the EVS stream is started, the state is
\* RUNNING and mProcessThread runs processFrames.
SvStartStream ==
    /\ svStreamState = "STOPPED"
    /\ ptPc = "none"
    /\ svCam' = "on"
    /\ mProcessingEvsFrames' = FALSE
    /\ svStreamState' = "RUNNING"
    /\ ptPc' = "start"
    /\ UNCHANGED <<svStopped, svOp, halVars, shVars, ctlVars, devVars, poolVars,
                   raceVars, lockVars>>

\* processFrames: Start3dPipeline(); when it fails the thread returns.
PtStartPipeline(ok) ==
    /\ ptPc = "start"
    /\ ptPc' = IF ok THEN "check" ELSE "exited"
    /\ UNCHANGED <<svStreamState, mProcessingEvsFrames, svStopped, svCam, svOp, halVars,
                   shVars, ctlVars, devVars, poolVars, raceVars, lockVars>>

\* processFrames, top of the loop under mAccessLock:
\* `if (mStreamState != RUNNING) break;`, else the wait on mFramesSignal.
PtCheck ==
    /\ ptPc = "check"
    /\ ptPc' = IF svStreamState # "RUNNING" THEN "notify" ELSE "wait"
    /\ UNCHANGED <<svStreamState, mProcessingEvsFrames, svStopped, svCam, svOp, halVars,
                   shVars, ctlVars, devVars, poolVars, raceVars, lockVars>>

\* `mFramesSignal.wait(lock, [this]() { return mProcessingEvsFrames; })`
WaitOver(processing, state) == processing

PtWake ==
    /\ ptPc = "wait"
    /\ WaitOver(mProcessingEvsFrames, svStreamState)
    /\ ptPc' = "handle"
    /\ UNCHANGED <<svStreamState, mProcessingEvsFrames, svStopped, svCam, svOp, halVars,
                   shVars, ctlVars, devVars, poolVars, raceVars, lockVars>>

\* handleFrames(mSequenceId), then "Set the boolean to false to receive the
\* next set of frames."
PtHandle ==
    /\ ptPc = "handle"
    /\ mProcessingEvsFrames' = FALSE
    /\ ptPc' = "check"
    /\ UNCHANGED <<svStreamState, svStopped, svCam, svOp, halVars, shVars, ctlVars,
                   devVars, poolVars, raceVars, lockVars>>

\* processFrames after the loop: mStream->notify(SvEvent::STREAM_STOPPED),
\* mStreamState = STOPPED, and the thread ends.
PtNotify ==
    /\ ptPc = "notify"
    /\ svStopped' = svStopped + 1
    /\ svStreamState' = "STOPPED"
    /\ ptPc' = "exited"
    /\ UNCHANGED <<mProcessingEvsFrames, svCam, svOp, halVars, shVars, ctlVars,
                   devVars, poolVars, raceVars, lockVars>>

\* SurroundView3dSession::stopStream: a RUNNING session becomes STOPPING and
\* the EVS stream is told to stop.
SvStopStream ==
    /\ IF svStreamState = "RUNNING"
       THEN /\ svStreamState' = "STOPPING"
            /\ svCam' = "stopping"
       ELSE UNCHANGED <<svStreamState, svCam>>
    /\ UNCHANGED <<mProcessingEvsFrames, ptPc, svStopped, svOp, halVars, shVars,
                   ctlVars, devVars, poolVars, raceVars, lockVars>>

\* The EVS stream has stopped: no frame comes any more.
SvCamStopped ==
    /\ svCam = "stopping"
    /\ svCam' = "off"
    /\ UNCHANGED <<svStreamState, mProcessingEvsFrames, ptPc, svStopped, svOp, halVars,
                   shVars, ctlVars, devVars, poolVars, raceVars, lockVars>>

\* FramesHandler::deliverFrame_1_1(buffers) with buffers.size() = size.
\*   given:  calls of mCamera->doneWithFrame_1_1(buffers) it makes
\*   copied: the buffers were copied to mInputPointers
SvDeliverFrame(size) ==
    /\ svCam # "off"
    /\ IF mProcessingEvsFrames
       THEN /\ svOp' = [size |-> size, busy |-> TRUE, given |-> 1, copied |-> FALSE,
                        tick |-> ~svOp.tick]
            /\ UNCHANGED mProcessingEvsFrames
       ELSE IF size # kNumFrames
       THEN /\ svOp' = [size |-> size, busy |-> FALSE, given |-> 0, copied |-> FALSE,
                        tick |-> ~svOp.tick]
            /\ UNCHANGED mProcessingEvsFrames
       ELSE /\ svOp' = [size |-> size, busy |-> FALSE, given |-> 1, copied |-> TRUE,
                        tick |-> ~svOp.tick]
            /\ mProcessingEvsFrames' = TRUE
    /\ UNCHANGED <<svStreamState, ptPc, svStopped, svCam, halVars, shVars, ctlVars,
                   devVars, poolVars, raceVars, lockVars>>

SvNext ==
    \/ SvStartStream
    \/ \E ok \in BOOLEAN : PtStartPipeline(ok)
    \/ PtCheck
    \/ PtWake
    \/ PtHandle
    \/ PtNotify
    \/ SvStopStream
    \/ SvCamStopped
    \/ \E size \in BatchSizes : SvDeliverFrame(size)

\* The event path: clients come, stream and go while the device sends events,
\* some of which a client fails to take.
NotifyNext ==
    \/ \E c \in Clients : MakeVirtualCamera(c, 1, TRUE)
    \/ \E c \in Clients : DisownVirtualCamera(c, TRUE)
    \/ \E c \in Clients : DropClient(c)
    \/ \E c \in Clients, ok \in BOOLEAN : ClientStreamStarting(c, ok)
    \/ \E c \in Clients : ClientStreamEnding(c)
    \/ \E aType \in EventTypes, failed \in SUBSET Clients : DeviceNotify(aType, failed)

\* ---------------------------------------------------------- specifications
Init == InitHal /\ InitSH /\ InitCtl /\ InitDev /\ InitPool /\ InitRace /\ InitLock /\ InitSv

Next == HalNext

Spec == Init /\ [][Next]_vars

SpecSH == Init /\ [][SHNext]_vars

\* The stopping thread runs when it can, a woken waiter gets the lock, and an
\* event the camera has sent arrives; the camera owes nobody another frame.
SpecStop ==
    /\ Init
    /\ [][StopNext]_vars
    /\ WF_vars(SHAsyncStopStream)
    /\ WF_vars(SHStopLock)
    /\ WF_vars(SHStopWake)
    /\ WF_vars(SHNotifyStopped)

SpecMaster == Init /\ [][MasterNext]_vars

SpecStream == Init /\ [][StreamNext]_vars

SpecNotify == Init /\ [][NotifyNext]_vars

SpecDev == Init /\ [][DevNext]_vars

SpecPool == Init /\ [][PoolNext]_vars

SpecRace == Init /\ [][RaceNext]_vars

\* The process thread runs on whenever it can, and an EVS stream that was
\* told to stop does stop; frames come or not.
SpecSv ==
    /\ Init /\ [][SvNext]_vars
    /\ WF_vars(PtCheck) /\ WF_vars(PtWake) /\ WF_vars(PtHandle) /\ WF_vars(PtNotify)
    /\ WF_vars(SvCamStopped)

\* Every locked scope ends, and a thread that asks for the mutex gets it when
\* it is free again and again.
SpecLock ==
    /\ Init /\ [][LockNext]_vars
    /\ WF_vars(CbUnlock) /\ WF_vars(DlUnlock) /\ WF_vars(RqUnlock)
    /\ SF_vars(CbLock)

\* ================================================================== claims
Held(c) == SumOver(holds[c], BufIds)
TotalHeld == SumOver([c \in Clients |-> Held(c)], Clients)
RefSum(frames) == SumSeq([i \in 1..Len(frames) |-> frames[i].refCount])
FanOutStep == pc = "idle" /\ pc' = "track"
TrackStep == pc = "track" /\ pc' = "idle"

\* C1: whenever the Broker hands a frame back to the device, that buffer was
\* out (so it is handed back at most once per delivery), no client holds the
\* frame any more, and the Frame Record found for its id has a count of zero.
C1_ReturnedOnceAtZero ==
    [][nReturned' # nReturned =>
          \E id \in inUse :
              /\ nReturned' = nReturned + 1
              /\ inUse' = inUse \ {id}
              /\ \A c \in Clients : holds'[c][id] = 0
              /\ LET i == FindFrame(mFrames', id)
                 IN  i <= Len(mFrames') => mFrames'[i].refCount = 0]_vars

\* C1 witness: a frame taken by both clients went back after the second release.
C1_Witness ==
    /\ nReturned >= 1
    /\ allTaken
    /\ \E i \in 1..Len(mFrames) : mFrames[i].refCount = 0
    /\ \E i \in 1..Len(mFrames) : mFrames[i].refCount = 2

\* C2: with no delivery in progress, the refCounts of the Frame Tracker add up
\* to the number of (client, frame) pairs accepted and not yet released.
C2_RefCountsMatchHolders == pc = "idle" => RefSum(mFrames) = TotalHeld

\* C3: once every frame delivered so far was accepted by at least one client
\* and every accepted frame has been released, the device has received one
\* return per frame and no Frame Record has a count above zero.
C3_RoundTrip ==
    (pc = "idle" /\ allTaken /\ TotalHeld = 0) =>
        /\ nReturned = nDelivered
        /\ \A i \in 1..Len(mFrames) : mFrames[i].refCount = 0

\* C4: the fan-out counts exactly the accepting clients in frameDeliveries; the
\* end of deliverFrame_1_1 then returns the frame at once and leaves the
\* tracker alone if that count is 0, and otherwise keeps the frame and writes
\* the one record [id, count] into the first slot with refCount 0, appending it
\* if there is none.
C4_DeliveryOutcome ==
    [][/\ FanOutStep =>
             cur'.n = SumOver([c \in Clients |->
                                  holds'[c][cur'.id] - holds[c][cur'.id]], Clients)
       /\ TrackStep =>
             LET free == {i \in 1..Len(mFrames) : mFrames[i].refCount = 0}
                 rec == [frameId |-> cur.id, refCount |-> cur.n]
             IN  IF cur.n = 0
                 THEN /\ nReturned' = nReturned + 1
                      /\ cur.id \notin inUse'
                      /\ mFrames' = mFrames
                 ELSE /\ nReturned' = nReturned
                      /\ cur.id \in inUse'
                      /\ IF free = {}
                         THEN mFrames' = Append(mFrames, rec)
                         ELSE \E i \in free :
                                  /\ \A j \in free : i <= j
                                  /\ mFrames' = [mFrames EXCEPT ![i] = rec]]_vars

\* C4 witness: a frame taken by both clients was registered in a reused slot
\* while another frame is still tracked behind it.
C4_Witness ==
    /\ pc = "idle"
    /\ Len(mFrames) = 2
    /\ mFrames[1].refCount = 2
    /\ mFrames[2].refCount = 1
    /\ nDelivered = 3

\* C5: a frame accepted by a paced client is stamped at least kThreshold after
\* the frame delivered to that client before it.
C5_PacedInterval ==
    [][\A c \in Clients :
          (version[c] > 0 /\ Held(c)' > Held(c)) =>
              /\ lastTs'[c] = cur'.ts
              /\ lastTs'[c] - lastTs[c] >= kThreshold]_vars

\* C5 witness: a paced client got a second frame, 30 ms or more after its first.
C5_Witness ==
    \E c \in Clients :
        /\ version[c] > 0
        /\ lastTs[c] = 60000
        /\ \E b \in BufIds : holds[c][b] > 0
        /\ \E d \in Clients \ {c} : version[d] > 0 /\ lastTs[d] = 16000

PendingOf(reqs, c) == {k \in 1..Len(reqs) : reqs[k].client = c}

\* C6: in each delivery, the pending request of a live client that accepts is
\* served (the client gets this frame once, its fence is signalled, its request
\* leaves the queue) exactly if the frame is stamped kThreshold or more after
\* the request's lastTimestamp; otherwise the request stays queued unchanged and
\* the client gets nothing.  A paced client with no pending request gets nothing.
C6_ServedByFirstLateFrame ==
    [][FanOutStep =>
          \A c \in Clients :
              version[c] > 0 =>
                  IF PendingOf(mNextRequests, c) = {}
                  THEN holds'[c] = holds[c]
                  ELSE \A k \in PendingOf(mNextRequests, c) :
                          (Promotes(c) /\ c \in cur'.accept) =>
                              IF cur'.ts - mNextRequests[k].timestamp >= kThreshold
                              THEN /\ holds'[c] = [holds[c] EXCEPT ![cur'.id] = @ + 1]
                                   /\ PendingOf(mNextRequests', c) = {}
                                   /\ mTimelines'[c] = mTimelines[c] - 1
                              ELSE /\ holds'[c] = holds[c]
                                   /\ \E j \in PendingOf(mNextRequests', c) :
                                          mNextRequests'[j] = mNextRequests[k]
                                   /\ mTimelines'[c] = mTimelines[c]]_vars

\* C6 witness: after the frames at 0, 10, 30 and 60 ms a live paced client was
\* served at 30 ms, has not asked again, and holds that frame only.
C6_Witness ==
    /\ nDelivered = 4
    /\ pc = "idle"
    /\ \E c \in Clients :
           /\ version[c] > 0
           /\ Promotes(c)
           /\ lastTs[c] = 30000
           /\ mTimelines[c] = 0
           /\ Held(c) = 1

\* ------------------------------------------------- StreamHandler claims
DeliverCall == shCalls' = shCalls + 1 /\ shOp'.op = "deliver"
GetCall == shCalls' = shCalls + 1 /\ shOp'.op = "get"
DoneCall == shCalls' = shCalls + 1 /\ shOp'.op = "done"

\* C7: the ready and the held slot index are each -1, 0 or 1, and when both
\* designate a slot they designate different slots.
C7_SlotsDistinct ==
    /\ mReadyBuffer \in {-1, 0, 1}
    /\ mHeldBuffer \in {-1, 0, 1}
    /\ (mReadyBuffer >= 0 /\ mHeldBuffer >= 0) => mReadyBuffer # mHeldBuffer

\* C7 witness: a frame arrived while the consumer holds the frame of slot 0.
C7_Witness ==
    /\ shOp.op = "deliver"
    /\ mHeldBuffer = 0
    /\ mReadyBuffer = 1
    /\ mBuffers[0] # mBuffers[1]

\* C8: a frame delivered while another is ready sends the ready one back to the
\* camera once and nothing else, takes its slot, and leaves the held slot and
\* the held frame alone; after exactly three deliveries of three different
\* buffers and no other call, the ready slot has the last one and the other two
\* have gone back once each.
C8_ReadyFrameReplaced ==
    /\ [][(DeliverCall /\ mReadyBuffer >= 0) =>
              /\ camReturned' =
                     [camReturned EXCEPT ![mBuffers[mReadyBuffer]] = @ + 1]
              /\ mReadyBuffer' = mReadyBuffer
              /\ mBuffers'[mReadyBuffer'] = shOp'.arg
              /\ mHeldBuffer' = mHeldBuffer
              /\ mHeldBuffer >= 0 => mBuffers'[mHeldBuffer] = mBuffers[mHeldBuffer]]_vars
    /\ []((shCalls = 3 /\ \A b \in {1, 2, 3} : camDelivered[b] = 1) =>
              /\ mHeldBuffer = -1
              /\ mReadyBuffer \in Slots
              /\ mBuffers[mReadyBuffer] = camLast
              /\ \A b \in {1, 2, 3} :
                     camReturned[b] = IF b = camLast THEN 0 ELSE 1)

\* C8 witness: ids 1, 2, 3 were delivered and never pulled.
C8_Witness ==
    /\ shCalls = 3
    /\ shOp = [op |-> "deliver", arg |-> 3, ret |-> 0]
    /\ mReadyBuffer = 0
    /\ mHeldBuffer = -1
    /\ mBuffers[0] = 3
    /\ camReturned[1] = 1
    /\ camReturned[2] = 1
    /\ camReturned[3] = 0

\* C9 as stated: getNewFrame with a frame held changes nothing and returns the
\* held frame; otherwise the ready slot index becomes the held one, the ready
\* index becomes -1 and the frame that was ready is returned.
C9_TakeMovesReady ==
    [][GetCall =>
          IF mHeldBuffer >= 0
          THEN /\ mHeldBuffer' = mHeldBuffer
               /\ mReadyBuffer' = mReadyBuffer
               /\ shOp'.ret = mBuffers[mHeldBuffer]
          ELSE /\ mHeldBuffer' = mReadyBuffer
               /\ mReadyBuffer' = -1
               /\ mReadyBuffer \in Slots
               /\ shOp'.ret = mBuffers[mReadyBuffer]]_vars

\* C9: getNewFrame with a frame held changes nothing and returns the held frame;
\* with none held and a frame ready, the ready slot index becomes the held one,
\* the ready index becomes -1 and the frame last delivered is returned; with
\* none held and none ready, slot 0 becomes the held one, the ready index stays
\* -1 and whatever slot 0 contains is returned.
C9_TakeFrame ==
    [][GetCall =>
          IF mHeldBuffer >= 0
          THEN /\ mHeldBuffer' = mHeldBuffer
               /\ mReadyBuffer' = mReadyBuffer
               /\ shOp'.ret = mBuffers[mHeldBuffer]
          ELSE IF NewFrameAvailable
          THEN /\ mHeldBuffer' = mReadyBuffer
               /\ mReadyBuffer' = -1
               /\ shOp'.ret = mBuffers[mReadyBuffer]
               /\ shOp'.ret = camLast
          ELSE /\ mHeldBuffer' = 0
               /\ mReadyBuffer' = -1
               /\ shOp'.ret = mBuffers[0]]_vars

\* C9 witness: the consumer pulled before any frame arrived: it holds slot 0,
\* which nothing was stored in, and got the descriptor of that slot.
C9_Witness ==
    /\ shCalls = 1
    /\ shOp = [op |-> "get", arg |-> 0, ret |-> 0]
    /\ mHeldBuffer = 0
    /\ mReadyBuffer = -1
    /\ mBuffers[0] = 0

\* C10 as stated: doneWithFrame with a frame held whose id is the one released
\* forwards that frame once, sets the held index to -1 and leaves the ready
\* index; any other doneWithFrame gives the camera nothing.
C10_ReleaseChecked ==
    [][DoneCall =>
          IF mHeldBuffer >= 0 /\ shOp'.arg = mBuffers[mHeldBuffer]
          THEN /\ camReturned' =
                      [camReturned EXCEPT ![mBuffers[mHeldBuffer]] = @ + 1]
               /\ mHeldBuffer' = -1
               /\ mReadyBuffer' = mReadyBuffer
          ELSE camReturned' = camReturned]_vars

\* ------------------------------------------------ control plane claims
CtlCall(op) == ctlTick' # ctlTick /\ ctlOp'.op = op
\* The clients of the client set whose object exists.
LiveClients == {c \in Clients : Promotes(c) /\ Occurrences(mClients, c) > 0}
ToEachOnce(S) == [c \in Clients |-> IF c \in S THEN 1 ELSE 0]

\* C11 as stated: setMaster(C) returns OK and makes C the master exactly when
\* no existing client is the master; otherwise it returns OWNERSHIP_LOST and
\* leaves the master as it is.
C11_ClaimIffUnowned ==
    [][CtlCall("setMaster") =>
          IF MasterPromote = 0
          THEN ctlOp'.ret = "OK" /\ mMaster' = ctlOp'.c
          ELSE ctlOp'.ret = "OWNERSHIP_LOST" /\ mMaster' = mMaster]_vars

\* C12: forceMaster(C) returns OK and leaves C the master; when another
\* existing client was the master it, and nobody else, is sent MASTER_RELEASED
\* once; otherwise no event is sent.
C12_ForceClaim ==
    [][CtlCall("forceMaster") =>
          /\ ctlOp'.ret = "OK"
          /\ mMaster' = ctlOp'.c
          /\ IF MasterPromote \notin {0, ctlOp'.c}
             THEN /\ ctlEv'.aType = "MASTER_RELEASED"
                  /\ ctlEv'.to = ToEachOnce({MasterPromote})
             ELSE ctlEv' = NoEvent]_vars

\* C12 witness: client 2 took the role from client 1 with client 3 attached;
\* client 1 alone was told.
C12_Witness ==
    /\ ctlOp = [op |-> "forceMaster", c |-> 2, ret |-> "OK", id |-> 0, value |-> 0]
    /\ mMaster = 2
    /\ ctlEv.aType = "MASTER_RELEASED"
    /\ ctlEv.to = ToEachOnce({1})
    /\ LiveClients = {1, 2, 3}

\* C13: unsetMaster(C) by the master returns OK, clears the master and sends
\* MASTER_RELEASED once to every live client of the client set; by anybody
\* else it returns INVALID_ARG, leaves the master and sends nothing.
C13_Release ==
    [][CtlCall("unsetMaster") =>
          IF mMaster = ctlOp'.c
          THEN /\ ctlOp'.ret = "OK"
               /\ mMaster' = 0
               /\ ctlEv'.aType = "MASTER_RELEASED"
               /\ ctlEv'.to = ToEachOnce(LiveClients)
          ELSE /\ ctlOp'.ret = "INVALID_ARG"
               /\ mMaster' = mMaster
               /\ ctlEv' = NoEvent]_vars

\* C13 witness: the master gave up the role with two other clients attached,
\* one of them dead; the two live ones were told.
C13_Witness ==
    /\ ctlOp = [op |-> "unsetMaster", c |-> 1, ret |-> "OK", id |-> 0, value |-> 0]
    /\ mMaster = 0
    /\ Len(mClients) = 3
    /\ ctlEv.aType = "MASTER_RELEASED"
    /\ ctlEv.to = ToEachOnce({1, 3})

C15_DetachedUnreferenced ==
    \A c \in Clients :
        life[c] = "closed" => (Occurrences(mClients, c) = 0 /\ mMaster # c)

\* The Broker's own state (the calling client's stream state is not part of it).
brokerVars == <<mClients, mTimelines, mFrames, mNextRequests, mCurrentRequests,
                mMaster, mStreamState>>
deviceVars == <<hwFrames, hwOn, hwStopped, hwStarts, hwStops, hwParam>>

\* C16 as stated: the stream state is RUNNING exactly while the device is
\* producing frames.
C16_RunningIffProducing == (mStreamState = "RUNNING") <=> hwOn

\* C17: clientStreamStarting with the stream STOPPED makes it RUNNING and calls
\* the device's startVideoStream once; with the stream RUNNING or STOPPING it
\* returns OK, changes nothing in the Broker and does not call the device.  The
\* device is started by no other step, so only out of a STOPPED state.
C17_StartOnlyFromStopped ==
    /\ [][CtlCall("start") =>
              IF mStreamState = "STOPPED"
              THEN /\ mStreamState' = "RUNNING"
                   /\ hwStarts' = hwStarts + 1
              ELSE /\ ctlOp'.ret = "OK"
                   /\ brokerVars' = brokerVars
                   /\ deviceVars' = deviceVars]_vars
    /\ [][hwStarts' # hwStarts =>
              /\ CtlCall("start")
              /\ mStreamState = "STOPPED"
              /\ mStreamState' = "RUNNING"]_vars

\* C17 witness: three clients have started and the device was started once.
C17_Witness ==
    /\ ctlOp = [op |-> "start", c |-> 3, ret |-> "OK", id |-> 0, value |-> 0]
    /\ \A c \in Clients : streaming[c] = "running"
    /\ mStreamState = "RUNNING"
    /\ hwStarts = 1
    /\ hwOn

\* Some client left in the client set is streaming.
RemainingStreams ==
    \E c \in Clients :
        Promotes(c) /\ Occurrences(mClients, c) > 0 /\ streaming[c] = "running"

\* C18: a clientStreamEnding after which no client left in the client set is
\* streaming calls the device's stopVideoStream once and makes the stream state
\* STOPPING; one after which some client left is streaming does neither; and no
\* other step stops the device or enters STOPPING.
C18_StopOnLastEnding ==
    /\ [][CtlCall("end") =>
              IF RemainingStreams'
              THEN /\ hwStops' = hwStops
                   /\ mStreamState' = mStreamState
                   /\ hwOn' = hwOn
              ELSE /\ hwStops' = hwStops + 1
                   /\ mStreamState' = "STOPPING"
                   /\ ~hwOn']_vars
    /\ [][(hwStops' # hwStops \/ (mStreamState' = "STOPPING" /\ mStreamState # "STOPPING"))
              => (CtlCall("end") /\ ~RemainingStreams')]_vars

\* C18 witness: three clients were streaming and ended one after the other; the
\* device was stopped once, by the third.
C18_Witness ==
    /\ ctlOp = [op |-> "end", c |-> 3, ret |-> "OK", id |-> 0, value |-> 0]
    /\ \A c \in Clients : streaming[c] = "ended" /\ life[c] = "alive"
    /\ hwStarts = 1
    /\ hwStops = 1
    /\ hwStopped
    /\ mStreamState = "STOPPING"

\* C19 as stated: when the Broker gets STREAM_STOPPED from the device it
\* forwards it to every attached client that is or was streaming, also to
\* those that have called clientStreamEnding.
C19_StoppedReachesEndedClients ==
    [][(CtlCall("notify") /\ ctlEv'.aType = "STREAM_STOPPED") =>
          \A c \in Clients :
              (life[c] = "alive" /\ streaming[c] \in {"running", "ended"}) =>
                  ctlEv'.to[c] = 1]_vars

\* C20 as stated: disownVirtualCamera(C) takes C out of the client set, takes
\* C's pending frame request out of the queue, destroys C's timeline and asks
\* the device for the pool of the clients left (at least 1); and no frame
\* delivered after the detach is handed to C.
C20_DetachCancelsRequest ==
    /\ [][\A c \in Clients :
              (life[c] = "alive" /\ life'[c] = "closed") =>
                  /\ Occurrences(mClients', c) = 0
                  /\ PendingOf(mNextRequests', c) = {}
                  /\ PendingOf(mCurrentRequests', c) = {}
                  /\ mTimelines'[c] = NoTimeline
                  /\ hwFrames' \in {hwFrames, BufferCount(mClients', 0)}]_vars
    /\ [][FanOutStep =>
              \A c \in Clients : life[c] = "closed" => holds'[c] = holds[c]]_vars

\* C21: once a client has been attached (or an attach has been tried), the
\* buffer count last asked of the device by changeFramesInFlight is at least 1,
\* whatever clients have attached, detached or died since.
C21_PoolAtLeastOne ==
    (\E c \in Clients : life[c] # "none") => hwAsk.n >= 1

\* C21 witness: both clients were attached and both have detached; the last
\* count asked, with nobody left in the client set, is 1.
C21_Witness ==
    /\ mClients = <<>>
    /\ \A c \in FrameClients : life[c] = "closed"
    /\ hwAsk = [n |-> 1, ok |-> TRUE]

\* The allowedBuffers of the clients of a client list that still exist, summed.
LiveAllowed(clients) ==
    SumSeq([i \in 1..Len(clients) |->
                IF Promotes(clients[i]) THEN AllowedBuffers(clients[i]) ELSE 0])

AtLeastOne(n) == IF n >= 1 THEN n ELSE 1

C23_AttachAllOrNothing ==
    [][\A c \in Clients :
          (life[c] = "none" /\ life'[c] # "none") =>
              IF hwAsk'.ok
              THEN /\ life'[c] = "alive"
                   /\ Occurrences(mClients', c) = 1
                   /\ mTimelines'[c] # NoTimeline
              ELSE /\ life'[c] = "dead"
                   /\ mClients' = mClients
                   /\ mTimelines' = mTimelines
                   /\ mFrames' = mFrames]_vars

\* C23 witness: the second attach failed for want of buffers; the first client
\* is the only one in the client set and the only one with a timeline.
C23_Witness ==
    /\ hwAsk = [n |-> 2, ok |-> FALSE]
    /\ life[1] = "alive"
    /\ life[2] = "dead"
    /\ mClients = <<1>>
    /\ mTimelines[1] # NoTimeline
    /\ mTimelines[2] = NoTimeline

\* The live records of buffer `id`: those some client still counts on.
LiveRecords(frames, id) ==
    {i \in 1..Len(frames) : frames[i].frameId = id /\ RefIsPositive(frames[i].refCount)}

\* C24 as stated: a doneWithFrame for a buffer id with no live record changes
\* no Frame Record and returns nothing to the device; one for an id with a
\* live record takes exactly one off that record and returns the buffer to the
\* device exactly when the count reaches zero.
C24_DoneWithFrameChecked ==
    [][\A c \in Clients, id \in BufIds :
          holds'[c][id] < holds[c][id] =>
              IF LiveRecords(mFrames, id) = {}
              THEN /\ mFrames' = mFrames
                   /\ nReturned' = nReturned
              ELSE \E i \in LiveRecords(mFrames, id) :
                       /\ mFrames' = [mFrames EXCEPT ![i].refCount = @ - 1]
                       /\ nReturned' = IF RefIsZero(mFrames'[i].refCount)
                                       THEN nReturned + 1 ELSE nReturned]_vars

\* C25: notify forwards every event once to every client of the client set
\* whose object exists and to nobody else, whichever of those forwards fail;
\* and when the clients are notified of STREAM_STOPPED the stream state is
\* already STOPPED.
C25_NotifyFanOut ==
    [][CtlCall("notify") =>
          /\ ctlEv'.to = ToEachOnce(LiveClients)
          /\ ctlEv'.aType = "STREAM_STOPPED" =>
                 (ctlEv'.state = "STOPPED" /\ mStreamState' = "STOPPED")
          /\ ctlEv'.aType # "STREAM_STOPPED" => mStreamState' = mStreamState]_vars

\* C25 witness: the third client ended the stream; STREAM_STOPPED went to the
\* two clients left in the set, of which the first failed to take it.
C25_Witness ==
    /\ ctlOp.op = "notify"
    /\ ctlEv.aType = "STREAM_STOPPED"
    /\ mClients = <<1, 2>>
    /\ streaming[3] = "ended"
    /\ ctlEv.failed = {1}
    /\ ctlEv.to = ToEachOnce({1, 2})
    /\ mStreamState = "STOPPED"

\* C26 as stated: blockingStopStream does not return while mRunning is true,
\* and a thread blocked in it returns in the end once the handler has received
\* STREAM_STOPPED, whether or not another frame arrives afterwards.
C26_BlockingStopReturns ==
    /\ [][(stopPc # "returned" /\ stopPc' = "returned") => ~mRunning']_vars
    /\ (stopPc = "waiting" /\ ~mRunning) ~> (stopPc = "returned")

\* C27 as stated: stopVideoStream on a camera with a receiver registered
\* delivers one end-of-stream marker to it, after the capture thread has
\* stopped, so that no frame follows the marker, and clears the receiver
\* reference; also when two stopVideoStream calls overlap.
C27_OneMarkerAfterStop ==
    /\ markers <= 1
    /\ ~lateFrame
    /\ ~nullCall
    /\ (owed /\ \A t \in Callers : stPc[t] = "idle") =>
           (markers = 1 /\ mStream = "none" /\ capPc \in {"none", "exited"})

\* The (source FourCC, output format) pairs the stream start must recognise.
SupportedPairs ==
    {<<"YUYV", "RGBA_8888">>, <<"YUYV", "YCBCR_422_I">>, <<"UYVY", "YCBCR_422_I">>,
     <<"YUYV", "YCRCB_420_SP">>, <<"NV21", "YCRCB_420_SP">>}

\* C29 as stated: a startVideoStream that answers OK for one of the five
\* supported pairs has selected a conversion routine; for any other pair the
\* start fails: the stream is never started and no frame is ever passed to a
\* conversion routine.
C29_UnsupportedPairIsFatal ==
    mFormat # "none" =>
        IF <<v4lFormat, mFormat>> \in SupportedPairs
        THEN /\ devOp = [op |-> "start", ret |-> "OK"] => mFillBufferFromVideo # "unset"
             /\ ~fillFault
        ELSE /\ devOp # [op |-> "start", ret |-> "OK"]
             /\ mStream = "none"
             /\ capPc = "none"
             /\ nFrames = 0
             /\ ~fillFault

\* A setMaxFramesInFlight call that asks an open camera for more buffers than
\* it has, within the limit, while the allocator supplies fewer than needed.
GrowthFails ==
    /\ poolOp'.tick # poolOp.tick
    /\ poolOp'.ret # "OWNERSHIP_LOST"
    /\ poolOp'.n > mFramesAllowed
    /\ poolOp'.n <= MAX_BUFFERS_IN_FLIGHT
    /\ poolOp'.supply < poolOp'.n - mFramesAllowed

\* C28 as stated: when the allocator supplies fewer buffers than a growth of
\* the pool needs (none included), setMaxFramesInFlight returns
\* BUFFER_NOT_AVAILABLE and mFramesAllowed and the number of buffer handles
\* held are what they were before the call.
C28_GrowthRollsBack ==
    [][GrowthFails =>
          /\ poolOp'.ret = "BUFFER_NOT_AVAILABLE"
          /\ mFramesAllowed' = mFramesAllowed
          /\ Cardinality(Handles(v4lBuffers')) = Cardinality(Handles(v4lBuffers))]_vars

\* The requests of `reqs` that a frame stamped `ts` is too soon for, of clients
\* that are still referenced, in the order of `reqs`.
DeferredBy(reqs, ts) ==
    SelectSeq(reqs, LAMBDA r : Promotes(r.client) /\ ts - r.timestamp < kThreshold)

\* C30: the requests a delivery defers (live client, frame less than kThreshold
\* after the request's lastTimestamp) are at the head of the next cycle's deque
\* afterwards, unchanged and in their former order; the current-cycle deque is
\* empty after every delivery; and a request enqueued by requestNewFrame goes
\* behind everything already queued, the deferred requests included.
C30_DeferredKeptInOrder ==
    [][/\ FanOutStep =>
             LET kept == DeferredBy(mNextRequests, cur'.ts)
             IN  /\ Len(mNextRequests') >= Len(kept)
                 /\ SubSeq(mNextRequests', 1, Len(kept)) = kept
                 /\ mCurrentRequests' = <<>>
       /\ (~FanOutStep /\ Len(mNextRequests') > Len(mNextRequests)) =>
             /\ SubSeq(mNextRequests', 1, Len(mNextRequests)) = mNextRequests
             /\ mCurrentRequests' = <<>>]_vars

\* C30 witness: a delivery has just deferred the requests of two clients, and
\* they are queued for the next cycle as they were.
C30_Witness ==
    /\ pc = "track"
    /\ Len(cur.kept) = 2
    /\ cur.kept[1].client # cur.kept[2].client
    /\ mNextRequests = cur.kept
    /\ mCurrentRequests = <<>>

\* A changeFramesInFlight call that the device answered OK: every attach and
\* every detach makes one.
PoolChanged ==
    /\ hwAsk'.ok
    /\ \E c \in Clients : \/ life[c] = "none" /\ life'[c] # "none"
                          \/ life[c] = "alive" /\ life'[c] = "closed"

\* C31: a changeFramesInFlight that resizes the Frame Tracker keeps exactly the
\* records whose refCount is not 0, each with its id and count and in the
\* order they had, also when they are more than the count asked of the device.
C31_ResizeKeepsLiveRecords ==
    [][PoolChanged =>
          mFrames' = SelectSeq(mFrames, LAMBDA rec : rec.refCount # 0)]_vars

\* C31 witness: two frames are out, one with each client, when a detach
\* shrinks the pool to one buffer: both records are still tracked.
C31_Witness ==
    /\ hwAsk = [n |-> 1, ok |-> TRUE]
    /\ pc = "idle"
    /\ nDelivered = 2
    /\ Len(mFrames) = 2
    /\ \A i \in 1..2 : mFrames[i].refCount = 1
    /\ mFrames[1].frameId # mFrames[2].frameId

\* C32 as stated: the master pointer is written under the Broker lock, so of
\* the clients that call setMaster on a camera nobody owns, with nobody giving
\* the role up or forcing it, at most one is answered OK.
C32_OneMasterClaimed == Cardinality({c \in Clients : smRet[c] = "OK"}) <= 1

\* C33: notify never holds mFrameMutex while a client's event callback runs,
\* and a callback that calls requestNewFrame or clientStreamEnding gets the
\* mutex: it does not wait for ever.
C33_CallbackGetsLock ==
    /\ [](cbPc # "idle" => mFrameMutex # "notify")
    /\ (cbPc = "wantLock") ~> (cbPc = "inLock")

\* C33 witness: the callback of a STREAM_STOPPED event is inside
\* clientStreamEnding's locked scope while notify waits for it.
C33_Witness ==
    /\ evPc = "forward"
    /\ evType = "STREAM_STOPPED"
    /\ cbPc = "inLock"
    /\ cbOp = "clientStreamEnding"
    /\ mFrameMutex = "callback"

\* C34 as stated: a stopStream that finds the worker running returns only
\* after the worker has exited, with the run mode STOPPED and the buffers
\* unmapped; a stopStream that begins while another caller is still inside
\* stopStream returns with the reentrancy error, unmapping nothing and leaving
\* the run mode as it is.
C34_StopStreamOnce ==
    [][\A t \in Callers :
          /\ (stPc[t] = "join" /\ stPc'[t] # "join" /\ capPc = "exited") =>
                 /\ mRunMode' = {}
                 /\ stopOp'[t] = "unmapped"
          /\ (stPc[t] = "idle" /\ stPc'[t] # "idle"
                  /\ \E u \in Callers \ {t} : stPc[u] = "join") =>
                 /\ stopOp'[t] = "reentrancy"
                 /\ mRunMode' = mRunMode]_vars

\* C38 as stated: the RUN bit of the run mode is set only while a capture
\* worker exists; in particular the run mode is STOPPED after a startStream
\* that returned false.
C38_RunOnlyWithWorker == "RUN" \in mRunMode => capPc \in {"test", "frame", "ending"}

\* C35 as stated: no Frame Record ever has a count below zero (a count that
\* has wrapped below zero is stored as -1), so a record whose frame went back
\* to the device has the count 0 that makes its slot free again.
C35_RefCountNotBelowZero == \A i \in 1..Len(mFrames) : mFrames[i].refCount >= 0

\* A step in which client c calls requestNewFrame: its request is enqueued, or
\* the call is recorded.
RequestStep(c) ==
    \/ /\ Len(mNextRequests') = Len(mNextRequests) + 1
       /\ mNextRequests'[Len(mNextRequests')].client = c
    \/ /\ ctlTick' # ctlTick
       /\ ctlOp'.op = "requestNewFrame"
       /\ ctlOp'.c = c

\* C36 as stated: whenever the Broker dereferences a client's timeline, the
\* timelines map holds a timeline for that client: in requestNewFrame, and in
\* clientStreamEnding for the client whose pending request it removes.
C36_TimelineExists ==
    [][\A c \in Clients :
          /\ RequestStep(c) => mTimelines[c] # NoTimeline
          /\ (ctlTick' # ctlTick /\ ctlOp'.op = "end" /\ ctlOp'.c = c
                 /\ mNextRequests' # mNextRequests) => mTimelines[c] # NoTimeline]_vars

\* The records of the pool that are out.
Busy(bufs) == {i \in 1..Len(bufs) : bufs[i].inUse}

\* C37 as stated: mFramesInUse is the number of records marked inUse,
\* mFramesAllowed the number of records that hold a buffer, every record that
\* is out holds a buffer, and mFramesInUse <= mFramesAllowed <= 100.
C37_PoolCountsAgree ==
    /\ mFramesInUse = Cardinality(Busy(v4lBuffers))
    /\ mFramesAllowed = Cardinality(Handles(v4lBuffers))
    /\ Busy(v4lBuffers) \subseteq Handles(v4lBuffers)
    /\ mFramesInUse <= mFramesAllowed
    /\ mFramesAllowed <= MAX_BUFFERS_IN_FLIGHT

\* C39 as stated: once stopStream has made a session STOPPING whose process
\* thread is in its loop, the thread eventually leaves the loop, has told the
\* client STREAM_STOPPED exactly once and has set the state to STOPPED,
\* whether or not another batch of frames arrives.
C39_StopEndsProcessThread ==
    /\ [](svStopped <= 1)
    /\ (svStreamState = "STOPPING" /\ ptPc \in {"check", "wait", "handle", "notify"})
           ~> (svStreamState = "STOPPED" /\ ptPc = "exited" /\ svStopped = 1)

\* C40 as stated: every deliverFrame_1_1 gives its buffers back to the camera
\* with one doneWithFrame_1_1 before it returns, whatever their number and
\* whether or not frames are being processed; a batch that arrives while
\* frames are being processed is not copied.
C40_BatchGivenBackOnce ==
    [][svOp'.tick # svOp.tick =>
          /\ svOp'.given = 1
          /\ mProcessingEvsFrames => ~svOp'.copied]_vars

====
